---- MODULE Spec2Model ----
(***************************************************************************)
(* A model of the dynlex pattern pipeline (src/src/compiler):              *)
(*   compile = importSourceFile && analyzeSections && resolvePatterns      *)
(*             && inferTypes                                               *)
(* Each stage is a state machine over the fields of ParseContext.  Text is *)
(* modelled as a sequence of tokens: " " and "\t" are single whitespace    *)
(* characters, every other token is a run of non-whitespace characters.    *)
(***************************************************************************)
EXTENDS Integers, Sequences, FiniteSets, TLC

\* ------------------------------------------------------------------------
\* Bounds of the model
\* ------------------------------------------------------------------------
MaxFileLines == 2
MaxLines == 3
MaxIndent == 2
\* Options::maxResolutionIterations (256 by default), scaled down
maxResolutionIterations == 2
\* the programs given to resolvePatterns
MaxDefinitions == 2
MaxGlobalReferences == 1

\* ------------------------------------------------------------------------
\* State
\* ------------------------------------------------------------------------
VARIABLES
    \* compile(): which stage is running, which stages were entered, result
    stage, stagesRun, compileResult,
    \* ParseContext
    diagnostics, importedFiles, codeLines,
    \* the file system behind context.fileSystem (the lines of each file read
    \* so far, and whether the end of the file has been seen) and the path
    \* given to compile
    fileSystem, fileComplete, rootPath,
    \* importSourceFile: activation records, call about to be entered,
    \* value returned by the call that just ended
    callStack, pendingCall, returned,
    \* history: one entry per file load (which file, from which import line)
    loads,
    \* analyzeSections: the Section objects (context.mainSection is section 1),
    \* the per-line fields it fills in, and its locals
    sections, lineState, currentSection, indentString, indentLevel, compiledLineIndex,
    \* the Expression objects, by address: a line's expression and an
    \* expression's arguments are indexes into this sequence, 0 is nullptr
    expressions,
    \* resolvePatterns: its three work lists, context.patternTrees,
    \* context.unresolvedVariableReferences, the loop counter and the
    \* position in the function
    bodyReferences, globalReferences, unResolvedSections, patternTrees,
    unresolvedVariableReferences, resolutionIteration, resolvePc,
    \* inferTypes: the position in the function and, per finished pass of its
    \* loop, the value of `changed` at the end of the pass
    inferPc, inferPasses

driverVars == <<stage, stagesRun, compileResult>>
importVars == <<importedFiles, fileSystem, fileComplete, rootPath, callStack, pendingCall, loads>>
sectionVars == <<sections, expressions, lineState, currentSection, indentString, indentLevel,
                 compiledLineIndex>>
sectionLocals == <<lineState, currentSection, indentString, indentLevel, compiledLineIndex>>
resolveVars == <<bodyReferences, globalReferences, unResolvedSections, patternTrees,
                 unresolvedVariableReferences, resolutionIteration, resolvePc>>
inferVars == <<inferPc, inferPasses>>
laterVars == <<resolveVars, inferVars>>
vars == <<driverVars, diagnostics, codeLines, returned, importVars, sectionVars, laterVars>>

None == "none"

\* ------------------------------------------------------------------------
\* Text helpers
\* ------------------------------------------------------------------------
IsWhitespace(tok) == tok \in {" ", "\t"}

\* std::string_view::starts_with("import ")
StartsWithImport(text) ==
    /\ Len(text) >= 2
    /\ text[1] = "import"
    /\ text[2] = " "

\* rightTrimmedText.substr("import "sv.length()) : the model keeps paths as one token
ImportPathOf(text) == IF Len(text) >= 3 THEN text[3] ELSE ""

\* ------------------------------------------------------------------------
\* The file system
\* ------------------------------------------------------------------------
\* path spellings that can occur in import lines and on the command line
Paths == {"a.dl", "./a.dl", "b.dl", "missing.dl"}
\* the files that exist, by canonical path
Files == {"/a.dl", "/b.dl"}

\* the canonical path a spelling denotes
Canonical(path) ==
    CASE path \in {"a.dl", "./a.dl"} -> "/a.dl"
      [] path = "b.dl"               -> "/b.dl"
      [] OTHER                       -> "/missing.dl"

\* lsp::FileSystem::getFile : the SourceFile at that path, or null
getFile(path) == IF Canonical(path) \in Files THEN Canonical(path) ELSE None

\* the right-trimmed, comment-free texts a source line of the model can have
ImportTexts == {<<"import", " ", p>> : p \in Paths}
SourceTexts == {<<"x">>, <<" ", "import", " ", "b.dl">>} \cup ImportTexts

\* A file has at most MaxFileLines lines.  Its content never changes during a
\* compile; the model fixes each line the first time the importer reads it.

\* ------------------------------------------------------------------------
\* Diagnostics
\* ------------------------------------------------------------------------
Diagnostic(level, message, subject) ==
    [level |-> level, message |-> message, subject |-> subject]

Errors(ds) == {i \in 1..Len(ds) : ds[i].level = "Error"}

\* inferTypes has not begun
InferNotStarted ==
    /\ inferPc = "passes"
    /\ inferPasses = <<>>

\* resolvePatterns has not begun
ResolveNotStarted ==
    /\ InferNotStarted
    /\ bodyReferences = <<>>
    /\ globalReferences = <<>>
    /\ unResolvedSections = <<>>
    /\ patternTrees = <<>>
    /\ unresolvedVariableReferences = <<>>
    /\ resolutionIteration = 0
    /\ resolvePc = "idle"

\* the later stages have not begun
SectionsNotStarted ==
    /\ ResolveNotStarted
    /\ sections = <<>>
    /\ expressions = <<>>
    /\ lineState = <<>>
    /\ currentSection = 0
    /\ indentString = <<>>
    /\ indentLevel = 0
    /\ compiledLineIndex = 0

\* ------------------------------------------------------------------------
\* Stage 1: importSourceFile
\* ------------------------------------------------------------------------
Frame(path, sourceFile, load) ==
    [path |-> path, sourceFile |-> sourceFile, sourceFileLineIndex |-> 0, load |-> load]

Top == callStack[Len(callStack)]
Pop(s) == SubSeq(s, 1, Len(s) - 1)
TopLine == fileSystem[Top.sourceFile][Top.sourceFileLineIndex + 1]
\* the running activation is at a line already read / behind the last line read
LineKnown == Top.sourceFileLineIndex < Len(fileSystem[Top.sourceFile])
AtKnownEnd == Top.sourceFileLineIndex = Len(fileSystem[Top.sourceFile])

\* context.importedFiles.contains(path)
AlreadyImported(path) == path \in importedFiles

\* the diagnostic of a main file that cannot be read
MainFileDiagnostic(path) ==
    <<Diagnostic("Error", "couldn't import main file", path)>>

\* the diagnostic of the caller whose import failed
ImportFailedDiagnostic(importPath) ==
    <<Diagnostic("Error", "failed to import source file", importPath)>>

\* the CodeLine pushed for a line that is no import statement
NewCodeLine_noIndex(frame, text) ==
    [sourceFile |-> frame.sourceFile, sourceFileLineIndex |-> frame.sourceFileLineIndex,
     rightTrimmedText |-> text, mergedLineIndex |-> 0, load |-> frame.load]
NewCodeLine(frame, text) ==
    [sourceFile |-> frame.sourceFile, sourceFileLineIndex |-> frame.sourceFileLineIndex,
     rightTrimmedText |-> text, mergedLineIndex |-> Len(codeLines), load |-> frame.load]

\* entry of importSourceFile(path): the already-imported check, getFile, and
\* the registration of the file
importSourceFile_enter ==
    /\ stage = "importSourceFile"
    /\ pendingCall /= None
    /\ returned = None
    /\ LET path == pendingCall
           sourceFile == getFile(path)
       IN  IF AlreadyImported(path)
           THEN /\ returned' = "true"
                /\ UNCHANGED <<importedFiles, callStack, loads, diagnostics>>
           ELSE IF sourceFile = None
           THEN /\ diagnostics' = IF importedFiles = {}
                                  THEN diagnostics \o MainFileDiagnostic(path)
                                  ELSE diagnostics
                /\ returned' = "false"
                /\ UNCHANGED <<importedFiles, callStack, loads>>
           ELSE /\ importedFiles' = importedFiles \cup {path}
                /\ loads' = Append(loads,
                                   [sourceFile |-> sourceFile,
                                    parent |-> IF callStack = <<>> THEN 0 ELSE Top.load,
                                    at |-> IF callStack = <<>> THEN 0 ELSE Top.sourceFileLineIndex])
                /\ callStack' = Append(callStack, Frame(path, sourceFile, Len(loads) + 1))
                /\ UNCHANGED <<returned, diagnostics>>
    /\ pendingCall' = None
    /\ UNCHANGED <<driverVars, codeLines, fileSystem, fileComplete, rootPath, sectionVars, laterVars>>

\* one iteration of the line loop: an import line calls importSourceFile,
\* any other line becomes the next CodeLine
importSourceFile_line ==
    /\ stage = "importSourceFile"
    /\ pendingCall = None
    /\ returned = None
    /\ callStack /= <<>>
    /\ \E text \in SourceTexts :
        /\ \/ /\ LineKnown
              /\ text = TopLine
              /\ UNCHANGED fileSystem
           \/ /\ AtKnownEnd
              /\ ~fileComplete[Top.sourceFile]
              /\ Len(fileSystem[Top.sourceFile]) < MaxFileLines
              /\ fileSystem' = [fileSystem EXCEPT ![Top.sourceFile] = Append(@, text)]
        /\ IF StartsWithImport(text)
           THEN /\ pendingCall' = ImportPathOf(text)
                /\ UNCHANGED <<codeLines, callStack>>
           ELSE /\ codeLines' = Append(codeLines, NewCodeLine(Top, text))
                /\ callStack' = [callStack EXCEPT ![Len(callStack)].sourceFileLineIndex = @ + 1]
                /\ UNCHANGED pendingCall
    /\ UNCHANGED <<driverVars, diagnostics, importedFiles, fileComplete, rootPath, returned, loads, sectionVars, laterVars>>

\* the recursive call of an import line has returned to its caller
importSourceFile_afterCall ==
    /\ stage = "importSourceFile"
    /\ returned /= None
    /\ callStack /= <<>>
    /\ IF returned = "false"
       THEN /\ diagnostics' = diagnostics \o ImportFailedDiagnostic(ImportPathOf(TopLine))
            /\ callStack' = Pop(callStack)
            /\ UNCHANGED returned
       ELSE /\ callStack' = [callStack EXCEPT ![Len(callStack)].sourceFileLineIndex = @ + 1]
            /\ returned' = None
            /\ UNCHANGED diagnostics
    /\ UNCHANGED <<driverVars, importedFiles, codeLines, fileSystem, fileComplete, rootPath, pendingCall, loads, sectionVars, laterVars>>

\* the line loop of the running activation is over: return true
importSourceFile_return ==
    /\ stage = "importSourceFile"
    /\ pendingCall = None
    /\ returned = None
    /\ callStack /= <<>>
    /\ AtKnownEnd
    /\ fileComplete' = [fileComplete EXCEPT ![Top.sourceFile] = TRUE]
    /\ callStack' = Pop(callStack)
    /\ returned' = "true"
    /\ UNCHANGED <<driverVars, diagnostics, importedFiles, codeLines, fileSystem, rootPath, pendingCall, loads, sectionVars, laterVars>>

\* compile(): importSourceFile(path, context) && analyzeSections(context) && ...
NextStageAfter_always(result, next) == next
NextStageAfter(result, next) == IF result = "true" THEN next ELSE "done"

compile_afterImport ==
    /\ stage = "importSourceFile"
    /\ returned /= None
    /\ callStack = <<>>
    /\ stage' = NextStageAfter(returned, "analyzeSections")
    /\ stagesRun' = IF stage' = "done" THEN stagesRun ELSE stagesRun \cup {stage'}
    /\ compileResult' = IF stage' = "done" THEN "false" ELSE compileResult
    /\ returned' = None
    /\ UNCHANGED <<diagnostics, importedFiles, codeLines, fileSystem, fileComplete, rootPath, callStack, pendingCall, loads, sectionVars, laterVars>>

InitImport ==
    /\ stage = "importSourceFile"
    /\ stagesRun = {"importSourceFile"}
    /\ compileResult = "running"
    /\ diagnostics = <<>>
    /\ importedFiles = {}
    /\ codeLines = <<>>
    /\ fileSystem = [f \in Files |-> <<>>]
    /\ fileComplete = [f \in Files |-> FALSE]
    /\ rootPath \in {"a.dl", "./a.dl", "missing.dl"}
    /\ callStack = <<>>
    /\ pendingCall = rootPath
    /\ returned = None
    /\ loads = <<>>
    /\ SectionsNotStarted

NextImport ==
    \/ importSourceFile_enter
    \/ importSourceFile_line
    \/ importSourceFile_afterCall
    \/ importSourceFile_return
    \/ compile_afterImport

SpecImport == InitImport /\ [][NextImport]_vars
SpecImportFair == SpecImport /\ WF_vars(NextImport)

\* ------------------------------------------------------------------------
\* Properties of stage 1
\* ------------------------------------------------------------------------
RECURSIVE ImportedAt(_, _)
\* the line of load `ancestor` whose import (directly or transitively) started
\* load l, or -1 when l was not started from within `ancestor`
ImportedAt(l, ancestor) ==
    IF l = 0 \/ loads[l].parent = 0 THEN -1
    ELSE IF loads[l].parent = ancestor THEN loads[l].at
    ELSE ImportedAt(loads[l].parent, ancestor)

ImportDone == stage /= "importSourceFile"
ImportSucceeded == "analyzeSections" \in stagesRun

\* the call about to be entered names a file that an activation on the call
\* stack is still importing: the import lines form a cycle
CircularVisit ==
    /\ pendingCall /= None
    /\ \E k \in DOMAIN callStack : callStack[k].sourceFile = getFile(pendingCall)

C6_EachFileLoadedOnce ==
    /\ \A i, j \in DOMAIN loads : loads[i].sourceFile = loads[j].sourceFile => i = j
    /\ \A i, j \in DOMAIN codeLines :
          (/\ codeLines[i].sourceFile = codeLines[j].sourceFile
           /\ codeLines[i].sourceFileLineIndex = codeLines[j].sourceFileLineIndex) => i = j

PathsAsked ==
    {rootPath} \cup
    UNION {{ImportPathOf(fileSystem[f][i]) :
               i \in {k \in DOMAIN fileSystem[f] : StartsWithImport(fileSystem[f][k])}} :
           f \in {loads[l].sourceFile : l \in DOMAIN loads}}

NamesUnreadable(ds) == \E i \in Errors(ds) : getFile(ds[i].subject) = None

\* C8: when the root file or an imported file cannot be read, importSourceFile
\* returns failure, an Error diagnostic names the unreadable path, and compile
\* enters no later stage.
C8_UnreadableFileIsFatal ==
    /\ (callStack = <<>> /\ returned = "false") => NamesUnreadable(diagnostics)
    /\ (ImportDone /\ \E p \in PathsAsked : getFile(p) = None) =>
          /\ NamesUnreadable(diagnostics)
          /\ compileResult = "false"
          /\ stage = "done"
          /\ stagesRun = {"importSourceFile"}

\* compile has ended in failure because a transitively imported file could
\* not be read
C8_Witness ==
    /\ stage = "done"
    /\ compileResult = "false"
    /\ Len(loads) >= 2
    /\ \E i \in Errors(diagnostics) : diagnostics[i].subject = "missing.dl"

\* ------------------------------------------------------------------------
\* Stage 2: analyzeSections
\* ------------------------------------------------------------------------
Spaces(n) == [i \in 1..n |-> " "]

\* the whitespace prefixes and the rest of the lines of the model
IndentStrings == {Spaces(n) : n \in 0..MaxIndent} \cup {<<"\t">>, <<" ", "\t">>}
LineBodies == {<<"x">>, <<"s", ":">>, <<"effect", " ", "p", ":">>, <<"execute", ":">>}
\* rightTrimmedText of a merged line: empty for a blank or comment-only line
SectionTexts == {<<>>} \cup {ind \o body : ind \in IndentStrings, body \in LineBodies}

RECURSIVE LeadingWhitespace(_)
\* std::regex("^(\\s*)") : the whitespace the text starts with
LeadingWhitespace(text) ==
    IF text = <<>> \/ ~IsWhitespace(Head(text)) THEN <<>>
    ELSE <<Head(text)>> \o LeadingWhitespace(Tail(text))

\* std::string::find_first_not_of(ch), 1-based; 0 stands for npos
FirstNotOf(str, ch) ==
    IF \A i \in DOMAIN str : str[i] = ch THEN 0
    ELSE CHOOSE i \in DOMAIN str : str[i] /= ch /\ \A j \in 1..(i - 1) : str[j] = ch

\* std::string_view::find(' '), 1-based; 0 stands for npos
FindSpace(str) == FirstNotOf([i \in DOMAIN str |-> IF str[i] = " " THEN "s" ELSE "w"], "w")

EndsWithColon(text) == text /= <<>> /\ text[Len(text)] = ":"

\* Section::Section(type, parent) : the new object, and its registration in
\* parent->children
NewSection(type, parent) ==
    [type |-> type, parent |-> parent, patternDefinitions |-> <<>>, patternReferences |-> <<>>,
     variableReferences |-> <<>>, variableDefinitions |-> {}, variables |-> <<>>,
     instantiations |-> <<>>, codeLines |-> <<>>, children |-> <<>>, unresolvedCount |-> 0,
     patternDefinitionsResolved |-> FALSE, variableLikeCounts |-> <<>>,
     isMacro |-> FALSE, isLocal |-> FALSE, startLineIndex |-> -1, endLineIndex |-> -1]

AddSection(secs, type, parent) ==
    LET id == Len(secs) + 1
        withNew == Append(secs, NewSection(type, parent))
    IN  IF parent = 0 THEN withNew
        ELSE [withNew EXCEPT ![parent].children = Append(@, id)]

\* the test of incrementUnresolved and decrementUnresolved:
\* unresolvedCount == 0 && parent
Propagates_always(count, parent) == parent /= 0
Propagates(count, parent) == count = 0 /\ parent /= 0

RECURSIVE incrementUnresolved(_, _)
\* Section::incrementUnresolved
incrementUnresolved(secs, sec) ==
    LET up == IF Propagates(secs[sec].unresolvedCount, secs[sec].parent)
              THEN incrementUnresolved(secs, secs[sec].parent)
              ELSE secs
    IN  [up EXCEPT ![sec].unresolvedCount = @ + 1]

\* Section::addPatternReference
addPatternReference(secs, sec, reference) ==
    incrementUnresolved([secs EXCEPT ![sec].patternReferences = Append(@, reference)], sec)

\* the reserved character that stands for a carved-out argument
ArgumentChar == "$"
\* the number literals of the model's texts
NumberTokens == {"1", "4", "32", "4294967296"}
\* the token that opens an intrinsic call
IntrinsicOpen == "@intrinsic("
\* the string literals of the model's texts, quotes included
StringTokens == {"\"use\"", "\"return\"", "\"store\"", "\"cast\"", "\"integer\""}
\* processEscapeSequences of the text between the quotes
StringContent(tok) ==
    CASE tok = "\"return\"" -> "return"
      [] tok = "\"store\""  -> "store"
      [] tok = "\"cast\""   -> "cast"
      [] tok = "\"integer\"" -> "integer"
      [] OTHER               -> "use"

\* a null PatternMatch pointer, a null PatternDefinition pointer, a null
\* PatternReference pointer, a null VariableReference pointer
NoMatch == [matched |-> FALSE]
NoDefinition == <<0, 0>>
NoReference == <<0, 0>>
NoVariableReference == <<0, 0>>

\* struct Type
Type(kind, byteSize) == [kind |-> kind, byteSize |-> byteSize, pointerDepth |-> 0]
Undeduced == Type("Undeduced", 0)
isDeduced(type) == type.kind /= "Undeduced"

\* the alternatives of Expression::literalValue
NoValue == [holds |-> "monostate", value |-> ""]
IntegerValue(tok) == [holds |-> "int64_t", value |-> tok]
StringValue(text) == [holds |-> "string", value |-> text]

\* a new Expression; start is range.start(), the position in the line
Expression(kind, line, start) ==
    [kind |-> kind, type |-> Undeduced, line |-> line, start |-> start,
     literalValue |-> NoValue, variable |-> NoVariableReference, patternMatch |-> NoMatch,
     patternReference |-> NoReference, intrinsicName |-> "", arguments |-> <<>>]

\* PatternReference::PatternReference, for the Pending expression at that
\* address; trimmed is what the pattern text lost on its left
PatternReference(line, patternType, text, expression, start, trimmed) ==
    [line |-> line, patternType |-> patternType, text |-> text, resolved |-> FALSE,
     patternElements |-> <<>>, match |-> NoMatch, resolveCalls |-> 0,
     expression |-> expression, start |-> start, trimmed |-> trimmed]

\* the number literals of a pattern text, each replaced by the argument character
ReplaceNumbers(text) ==
    [i \in DOMAIN text |-> IF text[i] \in NumberTokens THEN ArgumentChar ELSE text[i]]

\* "Trim left": a single leading space is dropped without a warning
TrimLeft(text) == IF text /= <<>> /\ text[1] = " " THEN Tail(text) ELSE text

RECURSIVE NumberLiterals(_, _, _, _)
\* the Literal expressions made for the number literals of a pattern text,
\* the last one first; from is the position of the text in the line
NumberLiterals(text, i, line, from) ==
    IF i = 0 THEN <<>>
    ELSE IF text[i] \in NumberTokens
    THEN <<[Expression("Literal", line, from + i - 1) EXCEPT
               !.literalValue = IntegerValue(text[i])]>>
             \o NumberLiterals(text, i - 1, line, from)
    ELSE NumberLiterals(text, i - 1, line, from)

\* what detectPatternsRecursively and detectPatterns hand back: the
\* sections, the Expression objects, and the address of the expression
Detected(secs, exprs, expression) ==
    [sections |-> secs, expressions |-> exprs, expression |-> expression]

\* Section::detectPatternsRecursively for a text without strings or
\* parentheses.  The number literals become Literal arguments of a Pending
\* expression whose PatternReference holds the pattern text with the
\* literals replaced; a pattern that is a lone argument character in an
\* Expression position is that argument itself.
detectPatternsRecursively(secs, exprs, sec, line, text, start, patternType) ==
    LET pending(literals) == Len(exprs) + Len(literals) + 1
        Node(literals) ==
            [Expression("Pending", line, start) EXCEPT
                !.patternReference = <<sec, Len(secs[sec].patternReferences) + 1>>,
                !.arguments = [k \in DOMAIN literals |-> Len(exprs) + k]]
        Made(trimmed, pattern, literals) ==
            IF pattern = <<ArgumentChar>> /\ patternType = "Expression"
            THEN Detected(secs, exprs \o literals, Len(exprs) + 1)
            ELSE Detected(addPatternReference(secs, sec,
                              PatternReference(line, patternType, pattern, pending(literals),
                                               start, Len(text) - Len(trimmed))),
                          (exprs \o literals) \o <<Node(literals)>>,
                          pending(literals))
        Trimmed(trimmed) ==
            Made(trimmed, ReplaceNumbers(trimmed),
                 NumberLiterals(trimmed, Len(trimmed), line, start + Len(text) - Len(trimmed)))
    IN  Trimmed(TrimLeft(text))

RECURSIVE SplitArguments(_, _, _, _)
\* the ',' children of an intrinsic's parenthesis: each piece of the text
\* from index `from` on, with its position in the line
SplitArguments(text, i, from, pieces) ==
    IF i >= Len(text)
    THEN Append(pieces, [text |-> SubSeq(text, from, Len(text) - 1), start |-> from - 1])
    ELSE IF text[i] = ","
    THEN SplitArguments(text, i + 1, i + 1,
                        Append(pieces, [text |-> SubSeq(text, from, i - 1), start |-> from - 1]))
    ELSE SplitArguments(text, i + 1, from, pieces)

\* createStringLiteral
StringLiteral(line, piece) ==
    [Expression("Literal", line, piece.start) EXCEPT
        !.literalValue = StringValue(StringContent(TrimLeft(piece.text)[1]))]

IsString(piece) == Len(TrimLeft(piece.text)) = 1 /\ TrimLeft(piece.text)[1] \in StringTokens

RECURSIVE processIntrinsicArg(_, _, _, _, _, _)
\* the loop over the arguments of an @intrinsic(...): d holds the sections,
\* the Expression objects and the address of the IntrinsicCall
processIntrinsicArg(d, sec, line, pieces, i, intrinsicExpr) ==
    IF i > Len(pieces) THEN d
    ELSE LET Push(a) ==
                 Detected(a.sections,
                          [a.expressions EXCEPT
                              ![intrinsicExpr].arguments = Append(@, a.expression),
                              ![intrinsicExpr].intrinsicName =
                                  IF @ = "" /\ a.expressions[a.expression].literalValue.holds = "string"
                                  THEN a.expressions[a.expression].literalValue.value
                                  ELSE @],
                          intrinsicExpr)
             Next(a) == processIntrinsicArg(Push(a), sec, line, pieces, i + 1, intrinsicExpr)
         IN  IF IsString(pieces[i])
             THEN Next(Detected(d.sections, Append(d.expressions, StringLiteral(line, pieces[i])),
                                Len(d.expressions) + 1))
             ELSE Next(detectPatternsRecursively(d.sections, d.expressions, sec, line,
                                                 pieces[i].text, pieces[i].start, "Expression"))

RECURSIVE Flatten(_)
Flatten(seqs) == IF seqs = <<>> THEN <<>> ELSE Head(seqs) \o Flatten(Tail(seqs))

\* the position of the first `ch` of text at or behind position from
\* (positions count from 1), or Len(text) + 1 (npos)
RECURSIVE Find(_, _, _)
Find(text, ch, from) ==
    IF from > Len(text) THEN Len(text) + 1
    ELSE IF text[from] = ch THEN from
    ELSE Find(text, ch, from + 1)

\* a string literal that is opened and not closed
UnterminatedStringTokens == {"\"use"}

\* the characters of a token that createHierarchy has a case for
HierarchyCharsOf(tok) ==
    IF tok \in {IntrinsicOpen, "("} THEN <<"(">>
    ELSE IF tok \in {")", ","} THEN <<tok>>
    ELSE IF tok \in StringTokens THEN <<"\"", "\"">>
    ELSE IF tok \in UnterminatedStringTokens THEN <<"\"">>
    ELSE <<>>

RECURSIVE HierarchyChars(_)
HierarchyChars(text) ==
    IF text = <<>> THEN <<>> ELSE HierarchyCharsOf(Head(text)) \o HierarchyChars(Tail(text))

UnmatchedClosing(ch, line) ==
    Diagnostic("Error", ("unmatched closing charachter found: '" \o ch) \o "'", line)
UnmatchedString(line) == Diagnostic("Error", "unmatched string charachter found: '\"'", line)
CommaWithoutBraces(line) == Diagnostic("Error", "found comma without enclosing braces", line)

RECURSIVE UnclosedNodes(_, _)
\* the loop behind the scan: one Error for every node still on the stack,
\* from the top down
UnclosedNodes(nodeStack, line) ==
    IF nodeStack = <<>> THEN <<>>
    ELSE <<UnmatchedClosing(nodeStack[Len(nodeStack)], line)>>
             \o UnclosedNodes(SubSeq(nodeStack, 1, Len(nodeStack) - 1), line)

RECURSIVE createHierarchyLoop(_, _, _, _)
\* the scan of createHierarchy over the characters it has a case for.
\* nodeStack holds the characters of the nodes above the base node.  The
\* result is the diagnostics pushed: none where a hierarchy is returned, at
\* least one where nullptr is returned.  The texts of the model hold no
\* backslash.
createHierarchyLoop(chars, index, nodeStack, line) ==
    LET top == IF nodeStack = <<>> THEN "" ELSE nodeStack[Len(nodeStack)]
        popped == SubSeq(nodeStack, 1, Len(nodeStack) - 1)
        closing == Find(chars, "\"", index + 1)
        afterComma == IF top = "," THEN popped ELSE nodeStack
        topAfterComma == IF afterComma = <<>> THEN "" ELSE afterComma[Len(afterComma)]
    IN  IF index > Len(chars) THEN UnclosedNodes(nodeStack, line)
        ELSE IF chars[index] = "("
        THEN createHierarchyLoop(chars, index + 1, Append(nodeStack, "("), line)
        ELSE IF chars[index] = ")"
        THEN IF topAfterComma = "("
             THEN createHierarchyLoop(chars, index + 1,
                                      SubSeq(afterComma, 1, Len(afterComma) - 1), line)
             ELSE <<UnmatchedClosing(")", line)>>
        ELSE IF chars[index] = "\""
        THEN IF closing > Len(chars) THEN <<UnmatchedString(line)>>
             ELSE createHierarchyLoop(chars, closing + 1, nodeStack, line)
        ELSE IF top = "(" THEN createHierarchyLoop(chars, index + 1, Append(nodeStack, ","), line)
        ELSE IF top = "," THEN createHierarchyLoop(chars, index + 1, nodeStack, line)
        ELSE <<CommaWithoutBraces(line)>>

createHierarchy(patternText, line) == createHierarchyLoop(HierarchyChars(patternText), 1, <<>>, line)

\* Section::detectPatterns: nullptr where createHierarchy returns nullptr.
\* A line that is one `@intrinsic("name", args...)` is the IntrinsicCall
\* itself: its pattern text is a lone argument character, so no
\* PatternReference is made for the line.
detectPatterns(secs, exprs, sec, line, patternText, patternType) ==
    LET Pushed(d, pushed) ==
            [sections |-> d.sections, expressions |-> d.expressions,
             expression |-> d.expression, diagnostics |-> pushed]
        hierarchy == createHierarchy(patternText, line)
    IN  IF hierarchy /= <<>> THEN Pushed(Detected(secs, exprs, 0), hierarchy)
        ELSE IF patternText /= <<>> /\ patternText[1] = IntrinsicOpen
        THEN Pushed(processIntrinsicArg(
                        Detected(secs, Append(exprs, Expression("IntrinsicCall", line, 0)),
                                 Len(exprs) + 1),
                        sec, line, SplitArguments(patternText, 2, 2, <<>>), 1, Len(exprs) + 1),
                    <<>>)
        ELSE Pushed(detectPatternsRecursively(secs, exprs, sec, line, patternText, 0, patternType),
                    <<>>)

\* the outcome of a createSection or processLine call: the sections, the
\* Expression objects, the new section (0 for nullptr), the diagnostics
\* pushed, line->expression
Outcome(secs, exprs, new, diags, expr) ==
    [sections |-> secs, expressions |-> exprs, newSection |-> new, diagnostics |-> diags,
     expression |-> expr]

\* a PatternDefinition made from the text behind the section type keyword
PatternDefinition(line, text) ==
    [line |-> line, text |-> text, resolved |-> FALSE, patternElements |-> <<>>]

RECURSIVE ParseKeywords(_, _, _)
\* the keyword loop of Section::createSection: the section type keyword found
\* (or none), the modifiers seen before it, and the text behind it
ParseKeywords(remaining, isMacro, isLocal) ==
    IF remaining = <<>>
    THEN [type |-> None, isMacro |-> isMacro, isLocal |-> isLocal, remaining |-> <<>>]
    ELSE LET spaceIndex == FindSpace(remaining)
             current == IF spaceIndex /= 0 THEN SubSeq(remaining, 1, spaceIndex - 1) ELSE remaining
             rest == IF spaceIndex /= 0 THEN SubSeq(remaining, spaceIndex + 1, Len(remaining)) ELSE <<>>
         IN  IF current = <<"macro">> THEN ParseKeywords(rest, TRUE, isLocal)
             ELSE IF current = <<"local">> THEN ParseKeywords(rest, isMacro, TRUE)
             ELSE IF current = <<"effect">>
                  THEN [type |-> "Effect", isMacro |-> isMacro, isLocal |-> isLocal, remaining |-> rest]
             ELSE IF current = <<"expression">>
                  THEN [type |-> "Expression", isMacro |-> isMacro, isLocal |-> isLocal, remaining |-> rest]
             ELSE IF current = <<"section">>
                  THEN [type |-> "Section", isMacro |-> isMacro, isLocal |-> isLocal, remaining |-> rest]
             ELSE IF current = <<"class">>
                  THEN [type |-> "Class", isMacro |-> isMacro, isLocal |-> isLocal, remaining |-> rest]
             ELSE [type |-> None, isMacro |-> isMacro, isLocal |-> isLocal, remaining |-> rest]

\* Section::createSection
Section_createSection(secs, exprs, sec, line, patternText) ==
    LET id == Len(secs) + 1
        Definition(kw) ==
            IF kw.remaining /= <<>> THEN <<PatternDefinition(line, kw.remaining)>> ELSE <<>>
        Keyword(kw) ==
            Outcome([AddSection(secs, kw.type, sec) EXCEPT
                        ![id].isMacro = kw.isMacro,
                        ![id].isLocal = kw.isLocal,
                        ![id].patternDefinitions = Definition(kw)],
                    exprs, id, <<>>, 0)
        Custom(d) == Outcome(d.sections, d.expressions, id, d.diagnostics, d.expression)
        Made(kw) ==
            IF kw.type /= None THEN Keyword(kw)
            ELSE Custom(detectPatterns(AddSection(secs, "Custom", sec), exprs, sec, line,
                                       patternText, "Section"))
    IN  Made(ParseKeywords(patternText, FALSE, FALSE))

\* DefinitionSection::createSection
DefinitionSection_createSection(secs, exprs, sec, line, patternText) ==
    IF secs[sec].isMacro /\ patternText = <<"replacement">>
    THEN Outcome(AddSection(secs, "Custom", sec), exprs, Len(secs) + 1, <<>>, 0)
    ELSE Outcome(secs, exprs, 0, <<Diagnostic("Error", "Unknown section", line)>>, 0)

\* EffectSection::createSection
EffectSection_createSection(secs, exprs, sec, line, patternText) ==
    IF patternText = <<"execute">>
    THEN Outcome(AddSection(secs, "Custom", sec), exprs, Len(secs) + 1, <<>>, 0)
    ELSE Outcome(secs, exprs, 0, <<Diagnostic("Error", "Unknown section", line)>>, 0)

\* ExpressionSection::createSection
ExpressionSection_createSection(secs, exprs, sec, line, patternText) ==
    IF patternText = <<"get">>
    THEN Outcome(AddSection(secs, "Custom", sec), exprs, Len(secs) + 1, <<>>, 0)
    ELSE DefinitionSection_createSection(secs, exprs, sec, line, patternText)

\* the virtual call currentSection->createSection(context, line)
createSection(secs, exprs, sec, line, patternText) ==
    IF secs[sec].type = "Effect"
    THEN EffectSection_createSection(secs, exprs, sec, line, patternText)
    ELSE IF secs[sec].type = "Expression"
    THEN ExpressionSection_createSection(secs, exprs, sec, line, patternText)
    ELSE Section_createSection(secs, exprs, sec, line, patternText)

\* Section::processLine
Section_processLine(secs, exprs, sec, line, patternText) ==
    LET Processed(d) == Outcome(d.sections, d.expressions, 0, d.diagnostics, d.expression)
    IN  Processed(detectPatterns(secs, exprs, sec, line, patternText, "Effect"))

\* EffectSection::processLine
EffectSection_processLine(secs, exprs, sec, line, patternText) ==
    Outcome(secs, exprs, 0, <<Diagnostic("Error", "Code without execute: section", line)>>, 0)

\* DefinitionSection::processLine
DefinitionSection_processLine(secs, exprs, sec, line, patternText) ==
    Outcome(secs, exprs, 0, <<Diagnostic("Error", "Code without body section", line)>>, 0)

\* the virtual call currentSection->processLine(context, line)
processLine(secs, exprs, sec, line, patternText) ==
    IF secs[sec].type = "Effect"
    THEN EffectSection_processLine(secs, exprs, sec, line, patternText)
    ELSE IF secs[sec].type = "Expression"
    THEN DefinitionSection_processLine(secs, exprs, sec, line, patternText)
    ELSE Section_processLine(secs, exprs, sec, line, patternText)

RECURSIVE ExitSections(_, _, _, _)
\* the loop that leaves sections on a dedent: n times currentSection =
\* currentSection->parent; currentSection->endLineIndex = compiledLineIndex + 1.
\* current becomes 0 when the walk follows a null parent.
ExitSections(secs, current, n, endLine) ==
    IF n = 0 \/ current = 0 THEN [sections |-> secs, current |-> current]
    ELSE LET up == secs[current].parent
         IN  IF up = 0 THEN [sections |-> secs, current |-> 0]
             ELSE ExitSections([secs EXCEPT ![up].endLineIndex = endLine], up, n - 1, endLine)

\* the three indentation diagnostics of analyzeSections
IndentAmountDiagnostic(line) == <<Diagnostic("Error", "Invalid indentation! expected N", line)>>
IndentCharDiagnostic(line) == <<Diagnostic("Error", "Invalid indentation! expected only", line)>>
IndentTooDeepDiagnostic_warning(line) == <<Diagnostic("Warning", "Invalid indentation! expected at max", line)>>
IndentTooDeepDiagnostic(line) == <<Diagnostic("Error", "Invalid indentation! expected at max", line)>>

\* The indentation checks of one non-blank line: the IndentData afterwards and
\* the diagnostics pushed on the way.
CheckIndent_keepUnit(unit, level, ind, line) ==
    LET discovered == unit = <<>>
        unit1 == IF discovered THEN ind ELSE unit
        level1 == IF discovered THEN (IF ind /= <<>> THEN 1 ELSE 0) ELSE level
        amount == IF ~discovered /\ Len(ind) % Len(unit) /= 0 THEN IndentAmountDiagnostic(line) ELSE <<>>
        invalidCharIndex == IF ind = <<>> THEN 0 ELSE FirstNotOf(ind, unit1[1])
    IN  IF ind = <<>>
        THEN [indentString |-> unit1, indentLevel |-> 0, diagnostics |-> amount]
        ELSE IF invalidCharIndex /= 0
        THEN [indentString |-> unit1, indentLevel |-> level1,
              diagnostics |-> amount \o IndentCharDiagnostic(line)]
        ELSE [indentString |-> unit1, indentLevel |-> Len(ind) \div Len(unit1), diagnostics |-> amount]
CheckIndent(unit, level, ind, line) ==
    LET discovered == unit = <<>>
        unit1 == IF discovered THEN ind ELSE unit
        level1 == IF discovered THEN (IF ind /= <<>> THEN 1 ELSE 0) ELSE level
        amount == IF ~discovered /\ Len(ind) % Len(unit) /= 0 THEN IndentAmountDiagnostic(line) ELSE <<>>
        invalidCharIndex == IF ind = <<>> THEN 0 ELSE FirstNotOf(ind, unit1[1])
    IN  IF ind = <<>>
        THEN [indentString |-> <<>>, indentLevel |-> 0, diagnostics |-> amount]
        ELSE IF invalidCharIndex /= 0
        THEN [indentString |-> unit1, indentLevel |-> level1,
              diagnostics |-> amount \o IndentCharDiagnostic(line)]
        ELSE [indentString |-> unit1, indentLevel |-> Len(ind) \div Len(unit1), diagnostics |-> amount]

NewLineState(sec, patternText, resolved, opening, expr) ==
    [section |-> sec, patternText |-> patternText, resolved |-> resolved,
     sectionOpening |-> opening, expression |-> expr]

SectionCodeLine(text, index) ==
    [sourceFile |-> "/a.dl", sourceFileLineIndex |-> index,
     rightTrimmedText |-> text, mergedLineIndex |-> index, load |-> 1]

\* the state analyzeSections works on: the sections, the per-line fields, its
\* locals, the diagnostics, and whether it has returned
SectioningState(secs, exprs, lines, current, unit, level, compiled, diags, result, crashed) ==
    [sections |-> secs, expressions |-> exprs, lineState |-> lines, currentSection |-> current,
     indentString |-> unit, indentLevel |-> level, compiledLineIndex |-> compiled,
     diagnostics |-> diags, returned |-> result, crashed |-> crashed]

\* analyzeSections before its first line
SectioningStart ==
    SectioningState(<<NewSection("Custom", 0)>>, <<>>, <<>>, 1, <<>>, 0, 0, <<>>, None, FALSE)

\* data.indentLevel++ for a line that opened a section
LevelAfterLine_same(level, opens) == level
LevelAfterLine(level, opens) == IF opens THEN level + 1 ELSE level

\* one iteration of the loop over context.codeLines, for a line with this
\* rightTrimmedText
AnalyzeLine(s, text) ==
    LET line == Len(s.lineState) + 1
        ind == LeadingWhitespace(text)
        trimmedText == SubSeq(text, Len(ind) + 1, Len(text))
        opens == EndsWithColon(trimmedText)
        patternText == IF opens THEN SubSeq(trimmedText, 1, Len(trimmedText) - 1) ELSE trimmedText
        Blank ==
            [s EXCEPT !.sections = [s.sections EXCEPT ![s.currentSection].codeLines = Append(@, line)],
                      !.lineState = Append(@, NewLineState(s.currentSection, <<>>, TRUE, 0, 0)),
                      !.compiledLineIndex = @ + 1]
        \* cannot go up sections twice in a time: fatal
        TooDeep(data) ==
            [s EXCEPT !.diagnostics = @ \o data.diagnostics \o IndentTooDeepDiagnostic(line),
                      !.indentString = data.indentString,
                      !.indentLevel = data.indentLevel,
                      !.lineState = Append(@, NewLineState(0, <<>>, FALSE, 0, 0)),
                      !.returned = "false"]
        \* currentSection->parent was null: the write through it is undefined
        NullParent(data) ==
            [s EXCEPT !.diagnostics = @ \o data.diagnostics,
                      !.lineState = Append(@, NewLineState(0, <<>>, FALSE, 0, 0)),
                      !.crashed = TRUE]
        Handled(data, owner, out) ==
            IF opens /\ out.newSection = 0
            THEN \* createSection returned nullptr
                 [s EXCEPT !.diagnostics = @ \o data.diagnostics \o out.diagnostics,
                           !.sections = out.sections,
                           !.expressions = out.expressions,
                           !.currentSection = owner,
                           !.indentString = data.indentString,
                           !.indentLevel = data.indentLevel,
                           !.lineState = Append(@, NewLineState(owner, patternText, FALSE, 0, 0)),
                           !.returned = "false"]
            ELSE [s EXCEPT !.diagnostics = @ \o data.diagnostics \o out.diagnostics,
                           !.sections = IF opens
                                        THEN [out.sections EXCEPT ![out.newSection].startLineIndex =
                                                                      s.compiledLineIndex + 1]
                                        ELSE out.sections,
                           !.expressions = out.expressions,
                           !.currentSection = IF opens THEN out.newSection ELSE owner,
                           !.indentString = data.indentString,
                           !.indentLevel = LevelAfterLine(data.indentLevel, opens),
                           !.lineState = Append(@, NewLineState(owner, patternText, FALSE,
                                                                out.newSection, out.expression)),
                           !.compiledLineIndex = @ + 1]
        Owned(data, owner, owned) ==
            Handled(data, owner,
                    IF opens THEN createSection(owned, s.expressions, owner, line, patternText)
                    ELSE processLine(owned, s.expressions, owner, line, patternText))
        Exited(data, exited) ==
            IF exited.current = 0 THEN NullParent(data)
            ELSE Owned(data, exited.current,
                       [exited.sections EXCEPT ![exited.current].codeLines = Append(@, line)])
        Checked(data) ==
            IF data.indentLevel > s.indentLevel THEN TooDeep(data)
            ELSE Exited(data, ExitSections(s.sections, s.currentSection,
                                           s.indentLevel - data.indentLevel,
                                           s.compiledLineIndex + 1))
    IN  IF text = <<>> THEN Blank
        ELSE Checked(CheckIndent(s.indentString, s.indentLevel, ind, line))

\* analyzeSections reaches the next line of context.codeLines, a line of
\* the given texts
AnalyzeNextLine(texts) ==
    /\ stage = "analyzeSections"
    /\ returned = None
    /\ Len(codeLines) < MaxLines
    /\ \E text \in texts :
        \E s \in {AnalyzeLine(SectioningState(sections, expressions, lineState, currentSection,
                                              indentString, indentLevel, compiledLineIndex,
                                              diagnostics, returned, FALSE), text)} :
            /\ codeLines' = Append(codeLines, SectionCodeLine(text, Len(codeLines)))
            /\ sections' = s.sections
            /\ expressions' = s.expressions
            /\ lineState' = s.lineState
            /\ currentSection' = s.currentSection
            /\ indentString' = s.indentString
            /\ indentLevel' = s.indentLevel
            /\ compiledLineIndex' = s.compiledLineIndex
            /\ diagnostics' = s.diagnostics
            /\ returned' = s.returned
            /\ stage' = IF s.crashed THEN "crashed" ELSE stage
    /\ UNCHANGED <<stagesRun, compileResult, importVars, laterVars>>

analyzeSections_line == AnalyzeNextLine(SectionTexts)

\* the lines with a syntax error inside the line, and lines around them
SyntaxBodies ==
    {<<"x">>,
     <<"x", " ", ")">>,
     <<IntrinsicOpen, "\"use\"", ",", " ", "1">>,
     <<"\"use">>,
     <<"x", ",", " ", "y">>,
     <<"x", " ", ")", ":">>,
     <<"effect", " ", "p", " ", "(", ":">>,
     <<"effect", " ", "p", ":">>}
SyntaxTexts == {ind \o body : ind \in {<<>>, <<" ">>}, body \in SyntaxBodies}

analyzeSections_syntaxLine == AnalyzeNextLine(SyntaxTexts)

\* the loop is over: analyzeSections returns true
analyzeSections_return ==
    /\ stage = "analyzeSections"
    /\ returned = None
    /\ returned' = "true"
    /\ UNCHANGED <<driverVars, diagnostics, codeLines, importVars, sectionVars, laterVars>>

compile_afterSections ==
    /\ stage = "analyzeSections"
    /\ returned /= None
    /\ stage' = NextStageAfter(returned, "resolvePatterns")
    /\ stagesRun' = IF stage' = "done" THEN stagesRun ELSE stagesRun \cup {stage'}
    /\ compileResult' = IF stage' = "done" THEN "false" ELSE compileResult
    /\ returned' = None
    /\ UNCHANGED <<diagnostics, codeLines, importVars, sectionVars, laterVars>>

\* the state in which compile calls analyzeSections; the merged lines are
\* fixed one by one as the loop reaches them
InitSections ==
    /\ stage = "analyzeSections"
    /\ stagesRun = {"importSourceFile", "analyzeSections"}
    /\ compileResult = "running"
    /\ diagnostics = <<>>
    /\ importedFiles = {"a.dl"}
    /\ codeLines = <<>>
    /\ fileSystem = [f \in Files |-> <<>>]
    /\ fileComplete = [f \in Files |-> f = "/a.dl"]
    /\ rootPath = "a.dl"
    /\ callStack = <<>>
    /\ pendingCall = None
    /\ returned = None
    /\ loads = <<[sourceFile |-> "/a.dl", parent |-> 0, at |-> 0]>>
    /\ sections = SectioningStart.sections
    /\ expressions = SectioningStart.expressions
    /\ lineState = SectioningStart.lineState
    /\ currentSection = SectioningStart.currentSection
    /\ indentString = SectioningStart.indentString
    /\ indentLevel = SectioningStart.indentLevel
    /\ compiledLineIndex = SectioningStart.compiledLineIndex
    /\ ResolveNotStarted

NextSections ==
    \/ analyzeSections_line
    \/ analyzeSections_return
    \/ compile_afterSections

SpecSections == InitSections /\ [][NextSections]_vars

NextSyntax ==
    \/ analyzeSections_syntaxLine
    \/ analyzeSections_return
    \/ compile_afterSections

SpecSyntax == InitSections /\ [][NextSyntax]_vars

\* ------------------------------------------------------------------------
\* Properties of stage 2
\* ------------------------------------------------------------------------
\* a step of the line loop, the line it handled and what it pushed
SectioningStep == stage = "analyzeSections" /\ Len(codeLines') = Len(codeLines) + 1
ThisLine == Len(codeLines')
ThisText == codeLines'[ThisLine].rightTrimmedText
ThisIndent == LeadingWhitespace(ThisText)
NewDiagnostics == SubSeq(diagnostics', Len(diagnostics) + 1, Len(diagnostics'))
Pushed(level, message) ==
    {i \in DOMAIN NewDiagnostics :
        /\ NewDiagnostics[i].level = level
        /\ NewDiagnostics[i].message = message
        /\ NewDiagnostics[i].subject = ThisLine}
PushedOfLevel(level) ==
    {i \in DOMAIN NewDiagnostics :
        NewDiagnostics[i].level = level /\ NewDiagnostics[i].subject = ThisLine}

AmountMessage == "Invalid indentation! expected N"
CharMessage == "Invalid indentation! expected only"
TooDeepMessage == "Invalid indentation! expected at max"

\* the unit the line is measured in: the one in force, or the line's own
\* indent when none is in force
UnitFor(ind) == IF indentString = <<>> THEN ind ELSE indentString
OneCharacter(ind) == \A i \in DOMAIN ind : ind[i] = UnitFor(ind)[1]
\* the line is indented deeper than the current level allows
OverIndented(ind) ==
    /\ ind /= <<>>
    /\ IF OneCharacter(ind)
       THEN Len(ind) \div Len(UnitFor(ind)) > indentLevel
       ELSE indentString = <<>> /\ indentLevel = 0
WidthMismatch(ind) == indentString /= <<>> /\ Len(ind) % Len(indentString) /= 0

\* the over-indent diagnostic has been pushed
FatalIndent == \E i \in DOMAIN diagnostics : diagnostics[i].message = TooDeepMessage

\* after the over-indent diagnostic nothing else happens: the line was the
\* last one looked at, it was put in no section, analyzeSections returned
\* false and compile entered no later stage
StoppedAtOverIndent ==
    FatalIndent =>
        /\ diagnostics[Len(diagnostics)].message = TooDeepMessage
        /\ diagnostics[Len(diagnostics)].subject = Len(codeLines)
        /\ lineState[Len(lineState)].section = 0
        /\ \A sec \in DOMAIN sections :
              \A k \in DOMAIN sections[sec].codeLines : sections[sec].codeLines[k] < Len(codeLines)
        /\ stagesRun = {"importSourceFile", "analyzeSections"}
        /\ stage \in {"analyzeSections", "done"}
        /\ stage = "analyzeSections" => returned = "false"
        /\ stage = "done" => compileResult = "false"

FirstIndentedLine ==
    IF \E i \in DOMAIN codeLines : LeadingWhitespace(codeLines[i].rightTrimmedText) /= <<>>
    THEN CHOOSE i \in DOMAIN codeLines :
            /\ LeadingWhitespace(codeLines[i].rightTrimmedText) /= <<>>
            /\ \A j \in 1..(i - 1) : LeadingWhitespace(codeLines[j].rightTrimmedText) = <<>>
    ELSE 0
FirstUnit == LeadingWhitespace(codeLines[FirstIndentedLine].rightTrimmedText)

SectionsSucceeded == stage = "analyzeSections" /\ returned = "true"

\* the places of a line in the line lists of the sections
Holders(l) ==
    {h \in (DOMAIN sections) \X (1..Len(codeLines)) :
        h[2] \in DOMAIN sections[h[1]].codeLines /\ sections[h[1]].codeLines[h[2]] = l}
IndentOf(l) == LeadingWhitespace(codeLines[l].rightTrimmedText)
NonBlank(l) == codeLines[l].rightTrimmedText /= <<>>
\* the indent unit of the block a line is in: the indent of the first
\* non-blank line behind the last unindented non-blank line before it
BlockUnit(l) ==
    LET unindented == {j \in 1..(l - 1) : NonBlank(j) /\ IndentOf(j) = <<>>}
        start == IF unindented = {} THEN 0
                 ELSE CHOOSE j \in unindented : \A k \in unindented : k <= j
        block == {j \in (start + 1)..l : NonBlank(j)}
    IN  IndentOf(CHOOSE j \in block : \A k \in block : j <= k)
\* the line is one unit deeper than the line that opened section x
OneLevelBelowOpener(l, x) ==
    \E o \in DOMAIN lineState :
        /\ lineState[o].sectionOpening = x
        /\ IndentOf(l) = IndentOf(o) \o BlockUnit(l)

\* C11: after analyzeSections has returned true, every CodeLine is in the
\* line list of exactly one Section, its section pointer names that Section,
\* and every non-blank line of a non-root section is indented exactly one
\* level deeper than the line that opened the section.
C11_LinesSectionedByIndent ==
    SectionsSucceeded =>
        \A l \in DOMAIN codeLines :
            /\ Cardinality(Holders(l)) = 1
            /\ \A h \in Holders(l) : lineState[l].section = h[1]
            /\ (NonBlank(l) /\ sections[lineState[l].section].parent /= 0) =>
                  OneLevelBelowOpener(l, lineState[l].section)

\* the first half of C11 alone
C11_EachLineInOneSection ==
    SectionsSucceeded =>
        \A l \in DOMAIN codeLines :
            /\ Cardinality(Holders(l)) = 1
            /\ \A h \in Holders(l) : lineState[l].section = h[1]

\* a line is misplaced only when an indentation Error names it or an
\* earlier line of its block
C11_MisplacedOnlyWithError ==
    SectionsSucceeded =>
        \A l \in DOMAIN codeLines :
            (/\ NonBlank(l)
             /\ sections[lineState[l].section].parent /= 0
             /\ ~OneLevelBelowOpener(l, lineState[l].section)) =>
                \E i \in DOMAIN diagnostics :
                    /\ diagnostics[i].subject <= l
                    /\ diagnostics[i].level = "Error"
                    /\ diagnostics[i].message \in {AmountMessage, CharMessage}

\* analyzeSections has returned false in the middle of its loop
SectionsAborted == stage = "analyzeSections" /\ returned = "false"

\* C12: over-indentation (and an unreadable root file, in the importer) are
\* the only conditions under which a stage returns early; for any other
\* error, such as an unknown child-section keyword inside a definition
\* section, the stage pushes a diagnostic and goes on with the next line.
C12_OnlyOverIndentAborts == SectionsAborted => FatalIndent

\* every early return of analyzeSections is one of two: the over-indent, or
\* a createSection call that pushed an Error and returned nullptr
C12_AbortsAreOverIndentOrNoSection ==
    SectionsAborted =>
        \/ FatalIndent
        \/ /\ diagnostics[Len(diagnostics)].level = "Error"
           /\ diagnostics[Len(diagnostics)].message = "Unknown section"
           /\ diagnostics[Len(diagnostics)].subject = Len(codeLines)
           /\ lineState[Len(codeLines)].sectionOpening = 0
           /\ EndsWithColon(codeLines[Len(codeLines)].rightTrimmedText)

\* ------------------------------------------------------------------------
\* Stage 3: resolvePatterns
\* ------------------------------------------------------------------------
\* the characters that are not \w
OtherTokens == {" ", "\t", ":", ",", ")", "+", "-", "!"}

PatternElement(type, text, startPos) ==
    [type |-> type, text |-> text, startPos |-> startPos, alternatives |-> <<>>]

\* the Type of one character in getPatternElements
ElementType(tok) ==
    IF tok = ArgumentChar THEN "Variable"
    ELSE IF tok \in OtherTokens THEN "Other"
    ELSE "VariableLike"

RECURSIVE GroupElements(_, _, _)
\* the loop of getPatternElements: a new element starts where the type changes
GroupElements(text, i, acc) ==
    IF i > Len(text) THEN acc
    ELSE LET t == ElementType(text[i])
             n == Len(acc)
         IN  IF n > 0 /\ acc[n].type = t
             THEN GroupElements(text, i + 1, [acc EXCEPT ![n].text = Append(@, text[i])])
             ELSE GroupElements(text, i + 1, Append(acc, PatternElement(t, <<text[i]>>, i - 1)))

getPatternElements(patternString) == GroupElements(patternString, 1, <<>>)

RECURSIVE MatchingClose(_, _, _)
\* the loop that finds the matching close bracket: the position behind it,
\* or 0 where the text ends with the bracket open (the assert fails)
MatchingClose(text, i, depth) ==
    IF depth = 0 THEN i
    ELSE IF i > Len(text) THEN 0
    ELSE MatchingClose(text, i + 1,
                       IF text[i] = "[" THEN depth + 1
                       ELSE IF text[i] = "]" THEN depth - 1
                       ELSE depth)

RECURSIVE SplitAlternatives(_, _, _, _, _)
\* the split of a choice's content by '|' at top level: the parts with the
\* position of their first character in the content
SplitAlternatives(content, j, partStart, depth, parts) ==
    IF j > Len(content)
    THEN Append(parts, [text |-> SubSeq(content, partStart, Len(content)), at |-> partStart])
    ELSE IF content[j] = "[" THEN SplitAlternatives(content, j + 1, partStart, depth + 1, parts)
    ELSE IF content[j] = "]" THEN SplitAlternatives(content, j + 1, partStart, depth - 1, parts)
    ELSE IF content[j] = "|" /\ depth = 0
    THEN SplitAlternatives(content, j + 1, j + 1, depth,
                           Append(parts, [text |-> SubSeq(content, partStart, j - 1),
                                          at |-> partStart]))
    ELSE SplitAlternatives(content, j + 1, partStart, depth, parts)

\* elem.startPos += by, for every element of a plain text
Shifted(plain, by) == [k \in DOMAIN plain |-> [plain[k] EXCEPT !.startPos = @ + by]]

RECURSIVE parsePatternElements(_, _)
RECURSIVE ParseFrom(_, _, _, _)
\* the while loop of parsePatternElements from position pos (counted from
\* 1).  The texts of the model hold no '{'.
ParseFrom(patternString, pos, offset, result) ==
    IF pos > Len(patternString) THEN result
    ELSE LET bracketStart == Find(patternString, "[", pos)
             before == IF bracketStart > pos
                       THEN Shifted(getPatternElements(SubSeq(patternString, pos, bracketStart - 1)),
                                    pos - 1 + offset)
                       ELSE <<>>
             i == MatchingClose(patternString, bracketStart + 1, 1)
             content == SubSeq(patternString, bracketStart + 1, i - 2)
             parts == SplitAlternatives(content, 1, 1, 0, <<>>)
             parsed == [k \in DOMAIN parts |->
                           parsePatternElements(parts[k].text,
                                                bracketStart + parts[k].at - 1 + offset)]
             absorb == /\ \E k \in DOMAIN parsed : parsed[k] = <<>>
                       /\ i <= Len(patternString)
                       /\ patternString[i] = " "
             alternatives == [k \in DOMAIN parsed |->
                                 IF absorb /\ parsed[k] /= <<>>
                                 THEN Append(parsed[k], PatternElement("Other", <<" ">>, i - 1 + offset))
                                 ELSE parsed[k]]
             choice == [PatternElement("Choice", <<>>, bracketStart - 1 + offset)
                           EXCEPT !.alternatives = alternatives]
         IN  IF bracketStart > Len(patternString)
             THEN result \o Shifted(getPatternElements(SubSeq(patternString, pos, Len(patternString))),
                                    pos - 1 + offset)
             ELSE ParseFrom(patternString, IF absorb THEN i + 1 ELSE i, offset,
                            (result \o before) \o <<choice>>)

parsePatternElements(patternString, offset) == ParseFrom(patternString, 1, offset, <<>>)

RECURSIVE Leaves(_)
\* the elements forEachLeafElement visits, in its order
Leaves(elements) ==
    IF elements = <<>> THEN <<>>
    ELSE (IF Head(elements).type = "Choice"
          THEN Flatten([k \in DOMAIN Head(elements).alternatives |->
                           Leaves(Head(elements).alternatives[k])])
          ELSE <<Head(elements)>>) \o Leaves(Tail(elements))

RECURSIVE RetypeLeaves(_, _, _, _)
\* forEachLeafElement with a callback that sets element.type = to on the
\* leaves of a type in `from` whose text is in `texts`
RetypeLeaves(elements, texts, from, to) ==
    [k \in DOMAIN elements |->
        IF elements[k].type = "Choice"
        THEN [elements[k] EXCEPT !.alternatives =
                 [a \in DOMAIN @ |-> RetypeLeaves(@[a], texts, from, to)]]
        ELSE IF elements[k].type \in from /\ elements[k].text \in texts
        THEN [elements[k] EXCEPT !.type = to]
        ELSE elements[k]]

\* the tries of the model, by pattern kind
TreeTypes == {"Section", "Expression", "Effect"}
NoChildren == [t \in {} |-> 0]

\* PatternTreeNode::PatternTreeNode
PatternTreeNode(type, text) ==
    [type |-> type, text |-> text, literalChildren |-> NoChildren, argumentChild |-> 0,
     matchingDefinition |-> NoDefinition, parameterNames |-> NoChildren]

InSeq(x, seq) == \E k \in DOMAIN seq : seq[k] = x
AppendNew(seq, x) == IF InSeq(x, seq) THEN seq ELSE Append(seq, x)

\* sharedNew once a node has been created: the parents that lack a child
\* for the element all get this one
SharedNew_perParent(new) == 0
SharedNew(new) == new

RECURSIVE addSharedChildLoop(_, _, _, _, _, _, _)
\* the loop of addSharedChild over the parents
addSharedChildLoop(tree, parents, i, elem, definition, sharedNew, children) ==
    IF i > Len(parents) THEN [tree |-> tree, nodes |-> children]
    ELSE LET parent == parents[i]
             child == IF elem.type = "Variable" THEN tree[parent].argumentChild
                      ELSE IF elem.text \in DOMAIN tree[parent].literalChildren
                           THEN tree[parent].literalChildren[elem.text]
                           ELSE 0
         IN  IF child /= 0
             THEN LET named == IF elem.type = "Variable"
                               THEN [tree EXCEPT ![child].parameterNames =
                                        (definition :> elem.text) @@ @]
                               ELSE tree
                  IN  addSharedChildLoop(named, parents, i + 1, elem, definition, sharedNew,
                                         AppendNew(children, child))
             ELSE LET new == IF sharedNew = 0 THEN Len(tree) + 1 ELSE sharedNew
                      withNew == IF sharedNew = 0
                                 THEN Append(tree, PatternTreeNode(elem.type, elem.text))
                                 ELSE tree
                      linked == IF elem.type = "Variable"
                                THEN [withNew EXCEPT ![parent].argumentChild = new,
                                                     ![new].parameterNames =
                                                         (definition :> elem.text) @@ @]
                                ELSE [withNew EXCEPT ![parent].literalChildren =
                                                         (elem.text :> new) @@ @]
                  IN  addSharedChildLoop(linked, parents, i + 1, elem, definition,
                                         SharedNew(new), AppendNew(children, new))

addSharedChild(tree, parents, elem, definition) ==
    addSharedChildLoop(tree, parents, 1, elem, definition, 0, <<>>)

RECURSIVE AppendAllNew(_, _)
\* the deduplication of branch endpoints: first occurrences, in order
AppendAllNew(seq, more) ==
    IF more = <<>> THEN seq ELSE AppendAllNew(AppendNew(seq, Head(more)), Tail(more))

RECURSIVE addElementSequence(_, _, _, _, _)
RECURSIVE AddAlternatives(_, _, _, _, _, _)
\* the loop over elem.alternatives: every alternative starts at currentNodes
AddAlternatives(tree, currentNodes, alternatives, a, definition, branchEndpoints) ==
    IF a > Len(alternatives) THEN [tree |-> tree, nodes |-> AppendAllNew(<<>>, branchEndpoints)]
    ELSE LET Next(branch) ==
                 AddAlternatives(branch.tree, currentNodes, alternatives, a + 1, definition,
                                 branchEndpoints \o branch.nodes)
         IN  Next(addElementSequence(tree, currentNodes, alternatives[a], 1, definition))

\* addElementSequence, from element i on
addElementSequence(tree, currentNodes, elements, i, definition) ==
    IF i > Len(elements) THEN [tree |-> tree, nodes |-> currentNodes]
    ELSE LET Next(step) == addElementSequence(step.tree, step.nodes, elements, i + 1, definition)
         IN  IF elements[i].type = "Choice"
             THEN Next(AddAlternatives(tree, currentNodes, elements[i].alternatives, 1,
                                       definition, <<>>))
             ELSE Next(addSharedChild(tree, currentNodes, elements[i], definition))

\* PatternTreeNode::addPatternPart on the root, index 0
addPatternPart(tree, elements, definition) ==
    LET End(walked) ==
            [n \in DOMAIN walked.tree |->
                IF InSeq(n, walked.nodes)
                THEN [walked.tree[n] EXCEPT !.matchingDefinition = definition]
                ELSE walked.tree[n]]
    IN  End(addElementSequence(tree, <<1>>, elements, 1, definition))

RECURSIVE MatchWalk(_, _, _, _)
\* The walk of the matcher from a node over the rest of the reference's
\* elements: a literal child whose text is the element's text is tried first,
\* then the argument child, which takes an argument character or one
\* identifier (a discovered variable).  The walk succeeds at a node with a
\* matching definition once every element is consumed.
MatchWalk(tree, node, elements, i) ==
    IF i > Len(elements)
    THEN IF tree[node].matchingDefinition /= NoDefinition
         THEN [matched |-> TRUE, matchedEndNode |-> node,
               definition |-> tree[node].matchingDefinition,
               nodesPassed |-> <<node>>, discoveredVariables |-> <<>>, arguments |-> <<>>]
         ELSE NoMatch
    ELSE LET e == elements[i]
             literal == IF e.type /= "Variable" /\ e.text \in DOMAIN tree[node].literalChildren
                        THEN MatchWalk(tree, tree[node].literalChildren[e.text], elements, i + 1)
                        ELSE NoMatch
             argument == IF tree[node].argumentChild /= 0 /\ e.type \in {"Variable", "VariableLike"}
                         THEN MatchWalk(tree, tree[node].argumentChild, elements, i + 1)
                         ELSE NoMatch
         IN  IF literal.matched
             THEN [literal EXCEPT !.nodesPassed = <<node>> \o @]
             ELSE IF argument.matched
             THEN [argument EXCEPT !.nodesPassed = <<node>> \o @,
                                   !.discoveredVariables =
                                       (IF e.type = "VariableLike"
                                        THEN <<[name |-> e.text, lineStartPos |-> e.startPos,
                                                variableReference |-> NoVariableReference]>>
                                        ELSE <<>>) \o @]
             ELSE NoMatch

\* ParseContext::match : the PatternMatch of the reference in the trie of its
\* pattern type, or null.  The arguments of the match are the arguments
\* carved out of the reference's text; the positions of the discovered
\* variables are positions in the line text of the reference.
ContextMatch(trees, reference, exprs) ==
    LET InLine(m) ==
            IF m.matched
            THEN [m EXCEPT !.arguments = exprs[reference.expression].arguments,
                           !.discoveredVariables =
                               [k \in DOMAIN m.discoveredVariables |->
                                   [m.discoveredVariables[k] EXCEPT
                                       !.lineStartPos = @ + reference.trimmed]]]
            ELSE m
    IN  InLine(MatchWalk(trees[reference.patternType], 1, reference.patternElements, 1))

\* a PatternReference is named by its section and its place in that
\* section's patternReferences
RefOf(secs, r) == secs[r[1]].patternReferences[r[2]]
SetRef(secs, r, reference) == [secs EXCEPT ![r[1]].patternReferences[r[2]] = reference]
OwnReferences(secs, sec) == [k \in 1..Len(secs[sec].patternReferences) |-> <<sec, k>>]

\* childInsideDefinition of collectPatternReferencesAndSections
ChildInsideDefinition_never(insideDefinition, hasDefinitions) == FALSE
ChildInsideDefinition(insideDefinition, hasDefinitions) == insideDefinition \/ hasDefinitions

RECURSIVE collectPatternReferencesAndSections(_, _, _)
RECURSIVE CollectFromChildren(_, _, _, _, _)
\* Section::collectPatternReferencesAndSections
collectPatternReferencesAndSections(secs, sec, insideDefinition) ==
    LET own == OwnReferences(secs, sec)
        hasDefinitions == secs[sec].patternDefinitions /= <<>>
        start == [bodyReferences |-> IF insideDefinition THEN own ELSE <<>>,
                  globalReferences |-> IF insideDefinition THEN <<>> ELSE own,
                  sections |-> IF hasDefinitions THEN <<sec>> ELSE <<>>]
    IN  CollectFromChildren(secs, secs[sec].children, 1,
                            ChildInsideDefinition(insideDefinition, hasDefinitions), start)

CollectFromChildren(secs, children, i, insideDefinition, acc) ==
    IF i > Len(children) THEN acc
    ELSE LET c == collectPatternReferencesAndSections(secs, children[i], insideDefinition)
         IN  CollectFromChildren(secs, children, i + 1, insideDefinition,
                 [bodyReferences |-> acc.bodyReferences \o c.bodyReferences,
                  globalReferences |-> acc.globalReferences \o c.globalReferences,
                  sections |-> acc.sections \o c.sections])

RECURSIVE collectBodyReferences(_, _, _)
\* collectBodyReferences: the references of every descendant, from child i on
collectBodyReferences(secs, sec, i) ==
    IF i > Len(secs[sec].children) THEN <<>>
    ELSE LET child == secs[sec].children[i]
         IN  OwnReferences(secs, child) \o collectBodyReferences(secs, child, 1)
                \o collectBodyReferences(secs, sec, i + 1)

HasVariableLike(elements, text) ==
    \E i \in DOMAIN elements : elements[i].type = "VariableLike" /\ elements[i].text = text

\* computeVariableLikeCounts, for one section
VariableLikeCountsOf(secs, sec) ==
    LET bodyRefs == collectBodyReferences(secs, sec, 1)
        defs == secs[sec].patternDefinitions
        LeafTexts(leaves) ==
            {leaves[i].text : i \in {j \in DOMAIN leaves : leaves[j].type = "VariableLike"}}
        vlTexts == UNION {LeafTexts(Leaves(defs[k].patternElements)) : k \in DOMAIN defs}
    IN  [t \in vlTexts |->
            Cardinality({j \in DOMAIN bodyRefs :
                            HasVariableLike(RefOf(secs, bodyRefs[j]).patternElements, t)})]

computeVariableLikeCounts(secs, list) ==
    [x \in DOMAIN secs |->
        IF InSeq(x, list)
        THEN [secs[x] EXCEPT !.variableLikeCounts = VariableLikeCountsOf(secs, x)]
        ELSE secs[x]]

\* the element parsing at the start of resolvePatterns
ParseElements(secs) ==
    [x \in DOMAIN secs |->
        LET defs == secs[x].patternDefinitions
            refs == secs[x].patternReferences
        IN  [secs[x] EXCEPT
                !.patternDefinitions =
                    [k \in DOMAIN defs |->
                        [defs[k] EXCEPT !.patternElements = parsePatternElements(defs[k].text, 0)]],
                !.patternReferences =
                    [k \in DOMAIN refs |->
                        [refs[k] EXCEPT !.patternElements = getPatternElements(refs[k].text)]]]]

\* Class definitions share the Expression trie
TreeTypeOf(section) == IF section.type = "Class" THEN "Expression" ELSE section.type

CountOf(section, text) ==
    IF text \in DOMAIN section.variableLikeCounts THEN section.variableLikeCounts[text] ELSE 0

\* a VariableLike element of a definition with more than one element
Deferred(definition, element) ==
    element.type = "VariableLike" /\ Len(definition.patternElements) > 1

RECURSIVE ScanDefinitions(_, _, _, _, _)
\* the two loops over section->patternDefinitions in phase 1: the first
\* classifies the VariableLike elements and inserts the definitions that
\* are decided, the second (force) inserts the rest as they are
ScanDefinitions(section, sec, tree, k, force) ==
    IF k > Len(section.patternDefinitions) THEN [section |-> section, tree |-> tree]
    ELSE LET Classified(d) ==
                 IF force \/ Len(d.patternElements) <= 1 THEN d.patternElements
                 ELSE LET leaves == Leaves(d.patternElements)
                      IN  RetypeLeaves(d.patternElements,
                                       {leaves[i].text :
                                           i \in {j \in DOMAIN leaves :
                                                     CountOf(section, leaves[j].text) = 0}},
                                       {"VariableLike"}, "Other")
             Decided(d, elements) ==
                 force \/ \A i \in DOMAIN Leaves(elements) : ~Deferred(d, Leaves(elements)[i])
             Insert(d, elements, decided) ==
                 ScanDefinitions(
                     [section EXCEPT !.patternDefinitions[k] =
                         [d EXCEPT !.patternElements = elements, !.resolved = decided]],
                     sec,
                     IF decided THEN addPatternPart(tree, elements, <<sec, k>>) ELSE tree,
                     k + 1, force)
             Decide(d, elements) == Insert(d, elements, Decided(d, elements))
             Visit(d) ==
                 IF d.resolved THEN ScanDefinitions(section, sec, tree, k + 1, force)
                 ELSE Decide(d, Classified(d))
         IN  Visit(section.patternDefinitions[k])

\* the predicate given to erase_if over unResolvedSections, with its effects
ResolveSection(secs, trees, sec) ==
    LET type == TreeTypeOf(secs[sec])
        allResolved(first) ==
            \A k \in DOMAIN first.section.patternDefinitions :
                first.section.patternDefinitions[k].resolved
        Result(second, patternDefinitionsResolved) ==
            [sections |-> [secs EXCEPT ![sec] =
                              [second.section EXCEPT !.patternDefinitionsResolved =
                                                         patternDefinitionsResolved]],
             trees |-> [trees EXCEPT ![type] = second.tree],
             erased |-> patternDefinitionsResolved]
        Second(first, patternDefinitionsResolved) ==
            Result(IF patternDefinitionsResolved
                   THEN ScanDefinitions(first.section, sec, first.tree, 1, TRUE)
                   ELSE first,
                   patternDefinitionsResolved)
        First(first) == Second(first, allResolved(first) \/ secs[sec].unresolvedCount = 0)
    IN  First(ScanDefinitions(secs[sec], sec, trees[type], 1, FALSE))

RECURSIVE EraseResolvedSections(_, _, _, _, _)
\* std::erase_if(unResolvedSections, ...)
EraseResolvedSections(secs, trees, list, i, kept) ==
    IF i > Len(list) THEN [sections |-> secs, trees |-> trees, unResolvedSections |-> kept]
    ELSE LET Next(r) == EraseResolvedSections(r.sections, r.trees, list, i + 1,
                                              IF r.erased THEN kept ELSE Append(kept, list[i]))
         IN  Next(ResolveSection(secs, trees, list[i]))

RECURSIVE decrementUnresolved(_, _)
\* Section::decrementUnresolved
decrementUnresolved(secs, sec) ==
    LET down == [secs EXCEPT ![sec].unresolvedCount = @ - 1]
    IN  IF Propagates(down[sec].unresolvedCount, down[sec].parent)
        THEN decrementUnresolved(down, down[sec].parent)
        ELSE down

\* PatternReference::resolve
resolve(secs, r, match) ==
    decrementUnresolved(
        SetRef(secs, r, [RefOf(secs, r) EXCEPT !.match = match,
                                               !.resolved = TRUE,
                                               !.resolveCalls = @ + 1]),
        r[1])

VariableReference(name, line) == [name |-> name, line |-> line, definition |-> NoVariableReference]

NamesVariable(element, name) ==
    element.text = name /\ element.type \in {"Variable", "VariableLike"}

RECURSIVE searchParentPatterns(_, _, _, _)
\* Section::searchParentPatterns: st holds the sections and
\* context.unresolvedVariableReferences, origin names the reference
searchParentPatterns(st, sec, origin, name) ==
    LET section == st.sections[sec]
        defs == section.patternDefinitions
        hits == {k \in DOMAIN defs :
                    \E i \in DOMAIN Leaves(defs[k].patternElements) :
                        NamesVariable(Leaves(defs[k].patternElements)[i], name)}
        first == CHOOSE k \in hits : \A j \in hits : k <= j
        varRef == <<sec, Len(section.variableReferences) + 1>>
        marked == [section EXCEPT
                      !.patternDefinitions =
                          [k \in DOMAIN defs |->
                              [defs[k] EXCEPT !.patternElements =
                                  RetypeLeaves(@, {name}, {"Variable", "VariableLike"},
                                               "Variable")]],
                      !.variableDefinitions =
                          {v \in @ : v.name /= name} \cup {[name |-> name, reference |-> varRef]},
                      !.variableReferences = Append(@, VariableReference(name, defs[first].line))]
        found == [st.sections EXCEPT ![sec] = marked]
    IN  IF hits /= {}
        THEN [st EXCEPT !.sections =
                 [found EXCEPT ![origin[1]].variableReferences[origin[2]].definition = varRef]]
        ELSE IF section.parent /= 0
        THEN searchParentPatterns(st, section.parent, origin, name)
        ELSE [st EXCEPT !.unresolvedVariableReferences =
                            Append(@, [name |-> name, reference |-> origin])]

\* Section::addVariableReference
addVariableReference(st, sec, name, line) ==
    LET pushed == [st EXCEPT !.sections[sec].variableReferences =
                                 Append(@, VariableReference(name, line))]
    IN  searchParentPatterns(pushed, sec, <<sec, Len(pushed.sections[sec].variableReferences)>>, name)

RECURSIVE addVariableReferencesFromMatch(_, _, _, _)
\* addVariableReferencesFromMatch, from discovered variable i on
addVariableReferencesFromMatch(st, r, match, i) ==
    IF i > Len(match.discoveredVariables) THEN st
    ELSE LET varRef == <<r[1], Len(st.sections[r[1]].variableReferences) + 1>>
             Known(added) ==
                 [added EXCEPT
                     !.sections[r[1]].patternReferences[r[2]].match.discoveredVariables[i]
                         .variableReference = varRef]
         IN  addVariableReferencesFromMatch(
                 Known(addVariableReference(st, r[1], match.discoveredVariables[i].name,
                                            RefOf(st.sections, r).line)),
                 r, match, i + 1)

RECURSIVE DecrementFor(_, _, _)
DecrementFor(counts, elements, i) ==
    IF i > Len(elements) THEN counts
    ELSE LET e == elements[i]
         IN  DecrementFor(IF e.type = "VariableLike" /\ e.text \in DOMAIN counts /\ counts[e.text] > 0
                          THEN [counts EXCEPT ![e.text] = @ - 1]
                          ELSE counts,
                          elements, i + 1)

RECURSIVE DecrementUp(_, _, _)
DecrementUp(secs, sec, elements) ==
    IF sec = 0 THEN secs
    ELSE DecrementUp(IF secs[sec].patternDefinitions /= <<>>
                     THEN [secs EXCEPT ![sec].variableLikeCounts = DecrementFor(@, elements, 1)]
                     ELSE secs,
                     secs[sec].parent, elements)

\* decrementVariableLikeCounts
decrementVariableLikeCounts(secs, r) == DecrementUp(secs, r[1], RefOf(secs, r).patternElements)

\* the predicate given to erase_if in resolveReferences, with its effects
ResolveReference(st, trees, r, decrementCounts) ==
    LET reference == RefOf(st.sections, r)
        single == Len(reference.patternElements) = 1
                  /\ reference.patternElements[1].type = "VariableLike"
        Counted(after) ==
            IF decrementCounts
            THEN [after EXCEPT !.sections = decrementVariableLikeCounts(@, r)]
            ELSE after
        Matched(match) ==
            addVariableReferencesFromMatch(
                [st EXCEPT !.sections = resolve(@, r, match)], r, match, 1)
        Promoted ==
            addVariableReference(
                [st EXCEPT !.sections =
                    resolve(SetRef(@, r, [reference EXCEPT
                                             !.patternElements[1].type = "Variable"]),
                            r, NoMatch)],
                r[1], reference.patternElements[1].text, reference.line)
        Tried(match) ==
            IF match.matched THEN Counted(Matched(match))
            ELSE IF single THEN Counted(Promoted)
            ELSE st
    IN  Tried(ContextMatch(trees, reference, st.expressions))

\* what the erase_if predicate of resolveReferences returns
Erase_always(reference) == TRUE
Erase(reference) == reference.resolved

RECURSIVE resolveReferences(_, _, _, _, _, _)
\* resolveReferences: the state afterwards and the references left in the list
resolveReferences(st, trees, references, i, decrementCounts, kept) ==
    IF i > Len(references) THEN [state |-> st, references |-> kept]
    ELSE LET Next(after) ==
                 resolveReferences(after, trees, references, i + 1, decrementCounts,
                                   IF Erase(RefOf(after.sections, references[i]))
                                   THEN kept
                                   ELSE Append(kept, references[i]))
         IN  Next(ResolveReference(st, trees, references[i], decrementCounts))

CouldNotResolveDiagnostic(line) ==
    Diagnostic("Error", "This pattern couldn't be resolved", line)

UnresolvedDiagnostics(secs, references) ==
    [k \in DOMAIN references |-> CouldNotResolveDiagnostic(RefOf(secs, references[k]).line)]

\* expandMatch for a match without sub-matches and discovered words: the
\* expression becomes a PatternCall whose arguments are those of the match,
\* then one new Variable expression per discovered variable
expandMatch(exprs, reference, e) ==
    LET found == reference.match.discoveredVariables
        made == [k \in DOMAIN found |->
                    [Expression("Variable", exprs[e].line, reference.start + found[k].lineStartPos)
                        EXCEPT !.variable = found[k].variableReference]]
    IN  [(exprs \o made) EXCEPT
            ![e].kind = "PatternCall",
            ![e].patternMatch = reference.match,
            ![e].arguments = reference.match.arguments
                                \o [k \in DOMAIN found |-> Len(exprs) + k]]

\* section->variableReferences[name].front(), or null
FirstVariableReference(secs, sec, name) ==
    LET refs == secs[sec].variableReferences
        named == {k \in DOMAIN refs : refs[k].name = name}
    IN  IF named = {} THEN NoVariableReference
        ELSE <<sec, CHOOSE k \in named : \A j \in named : k <= j>>

\* the rewriting of one Pending expression in expandExpression
ExpandPending_keep(exprs, secs, e, section) == exprs
ExpandPending(exprs, secs, e, section) ==
    LET reference == RefOf(secs, exprs[e].patternReference)
        only == IF Len(exprs[e].arguments) = 1 THEN exprs[e].arguments[1] ELSE 0
    IN  IF reference.match.matched THEN expandMatch(exprs, reference, e)
        ELSE IF Len(reference.patternElements) = 1
                /\ reference.patternElements[1].type = "Variable"
        THEN [exprs EXCEPT
                 ![e].kind = "Variable",
                 ![e].variable =
                     FirstVariableReference(secs, section, reference.patternElements[1].text)]
        ELSE IF only /= 0 /\ exprs[only].kind = "IntrinsicCall"
        THEN [exprs EXCEPT ![e].kind = "IntrinsicCall",
                           ![e].intrinsicName = exprs[only].intrinsicName,
                           ![e].arguments = exprs[only].arguments,
                           ![e].start = exprs[only].start]
        ELSE exprs

RECURSIVE expandExpression(_, _, _, _)
RECURSIVE ExpandArguments(_, _, _, _, _)
\* expandExpression: the children first, then the expression itself
expandExpression(exprs, secs, e, section) ==
    LET Own(expanded) ==
            IF expanded[e].kind = "Pending" THEN ExpandPending(expanded, secs, e, section)
            ELSE expanded
    IN  IF e = 0 THEN exprs ELSE Own(ExpandArguments(exprs, secs, e, section, 1))

ExpandArguments(exprs, secs, e, section, i) ==
    IF i > Len(exprs[e].arguments) THEN exprs
    ELSE ExpandArguments(expandExpression(exprs, secs, exprs[e].arguments[i], section),
                         secs, e, section, i + 1)

HasReferenceTo(section, name) ==
    \E k \in DOMAIN section.variableReferences : section.variableReferences[k].name = name

RECURSIVE HighestFrom(_, _, _, _)
\* the walk over the ancestors that looks for the highest one with a
\* reference of that name
HighestFrom(secs, a, name, highest) ==
    IF a = 0 THEN highest
    ELSE HighestFrom(secs, secs[a].parent, name,
                     IF HasReferenceTo(secs[a], name) THEN a ELSE highest)

HighestSection(secs, u) == HighestFrom(secs, secs[u.reference[1]].parent, u.name, u.reference[1])
\* range.line->mergedLineIndex of a reference, the key of std::min_element
LineOf_reversed(secs, u) == 0 - secs[u.reference[1]].variableReferences[u.reference[2]].line
LineOf(secs, u) == secs[u.reference[1]].variableReferences[u.reference[2]].line

\* the definition of the group of u: the first of its references with the
\* smallest line
DefinitionOf(secs, unresolved, u) ==
    LET group == {k \in DOMAIN unresolved :
                     /\ unresolved[k].name = unresolved[u].name
                     /\ HighestSection(secs, unresolved[k]) = HighestSection(secs, unresolved[u])}
    IN  CHOOSE k \in group :
            \A j \in group :
                \/ LineOf(secs, unresolved[k]) < LineOf(secs, unresolved[j])
                \/ LineOf(secs, unresolved[k]) = LineOf(secs, unresolved[j]) /\ k <= j

\* Variable::Variable
Variable(name, definition) == [name |-> name, definition |-> definition, type |-> Undeduced]

\* the loop over context.unresolvedVariableReferences at the end of
\* resolvePatterns
ResolveVariableScopes(secs, unresolved) ==
    LET definition(u) == unresolved[DefinitionOf(secs, unresolved, u)]
    IN  [x \in DOMAIN secs |->
            LET definedHere == {u \in DOMAIN unresolved : definition(u).reference[1] = x}
                grouped == {u \in DOMAIN unresolved : HighestSection(secs, unresolved[u]) = x}
                refs == secs[x].variableReferences
            IN  [secs[x] EXCEPT
                    !.variables =
                        [n \in {unresolved[u].name : u \in grouped} |->
                            Variable(n, definition(CHOOSE u \in grouped :
                                                      unresolved[u].name = n).reference)] @@ @,
                    !.variableDefinitions =
                        {v \in @ : \A u \in definedHere : unresolved[u].name /= v.name} \cup
                        {[name |-> unresolved[u].name, reference |-> definition(u).reference] :
                            u \in definedHere},
                    !.variableReferences =
                        [k \in DOMAIN refs |->
                            IF \E u \in DOMAIN unresolved :
                                  /\ unresolved[u].reference = <<x, k>>
                                  /\ definition(u).reference /= <<x, k>>
                            THEN [refs[k] EXCEPT !.definition =
                                     definition(CHOOSE u \in DOMAIN unresolved :
                                                   unresolved[u].reference = <<x, k>>).reference]
                            ELSE refs[k]]]]

RECURSIVE ExpandAll(_, _, _, _)
\* the loop over context.codeLines that expands every line's expression
ExpandAll(exprs, secs, lines, i) ==
    IF i > Len(lines) THEN exprs
    ELSE ExpandAll(expandExpression(exprs, secs, lines[i].expression, lines[i].section),
                   secs, lines, i + 1)

\* where a bounded loop goes before its next iteration
LoopOrLeave(iteration, inside, after) ==
    IF iteration < maxResolutionIterations THEN inside ELSE after

\* resolvePatterns up to the first loop: collect, parse, count, make the roots
resolvePatterns_begin ==
    /\ stage = "resolvePatterns"
    /\ resolvePc = "idle"
    /\ LET collected == collectPatternReferencesAndSections(sections, 1, FALSE)
       IN  /\ bodyReferences' = collected.bodyReferences
           /\ globalReferences' = collected.globalReferences
           /\ unResolvedSections' = collected.sections
           /\ sections' = computeVariableLikeCounts(ParseElements(sections), collected.sections)
    /\ patternTrees' = [t \in TreeTypes |-> <<PatternTreeNode("Other", <<>>)>>]
    /\ resolutionIteration' = 0
    /\ resolvePc' = LoopOrLeave(0, "sections", LoopOrLeave(0, "phase2", "finish"))
    /\ UNCHANGED <<driverVars, diagnostics, codeLines, returned, importVars, sectionLocals,
                   expressions, inferVars,
                   unresolvedVariableReferences>>

\* phase 1, first half of an iteration: go over all sections
resolvePatterns_sections ==
    /\ stage = "resolvePatterns"
    /\ resolvePc = "sections"
    /\ \E r \in {EraseResolvedSections(sections, patternTrees, unResolvedSections, 1, <<>>)} :
           /\ sections' = r.sections
           /\ patternTrees' = r.trees
           /\ unResolvedSections' = r.unResolvedSections
    /\ resolvePc' = "bodyReferences"
    /\ UNCHANGED <<driverVars, diagnostics, codeLines, returned, importVars, sectionLocals,
                   expressions, inferVars,
                   bodyReferences, globalReferences, unresolvedVariableReferences,
                   resolutionIteration>>

\* phase 1, second half of an iteration: the body references, then the test
\* that ends the loop
resolvePatterns_bodyReferences ==
    /\ stage = "resolvePatterns"
    /\ resolvePc = "bodyReferences"
    /\ \E r \in {resolveReferences([sections |-> sections, expressions |-> expressions,
                                     unresolvedVariableReferences |-> unresolvedVariableReferences],
                                    patternTrees, bodyReferences, 1, TRUE, <<>>)} :
           /\ sections' = r.state.sections
           /\ unresolvedVariableReferences' = r.state.unresolvedVariableReferences
           /\ bodyReferences' = r.references
           /\ IF unResolvedSections = <<>> /\ r.references = <<>>
              THEN /\ resolutionIteration' = 0
                   /\ resolvePc' = LoopOrLeave(0, "phase2", "finish")
              ELSE /\ resolutionIteration' =
                          IF resolutionIteration + 1 < maxResolutionIterations
                          THEN resolutionIteration + 1 ELSE 0
                   /\ resolvePc' = LoopOrLeave(resolutionIteration + 1, "sections",
                                               LoopOrLeave(0, "phase2", "finish"))
    /\ UNCHANGED <<driverVars, diagnostics, codeLines, returned, importVars, sectionLocals,
                   expressions, inferVars,
                   globalReferences, unResolvedSections, patternTrees>>

\* phase 2: one iteration over the global references
resolvePatterns_globalReferences ==
    /\ stage = "resolvePatterns"
    /\ resolvePc = "phase2"
    /\ \E r \in {resolveReferences([sections |-> sections, expressions |-> expressions,
                                     unresolvedVariableReferences |-> unresolvedVariableReferences],
                                    patternTrees, globalReferences, 1, FALSE, <<>>)} :
           /\ sections' = r.state.sections
           /\ unresolvedVariableReferences' = r.state.unresolvedVariableReferences
           /\ globalReferences' = r.references
           /\ IF r.references = <<>>
              THEN /\ resolvePc' = "finish"
                   /\ UNCHANGED resolutionIteration
              ELSE /\ resolutionIteration' = resolutionIteration + 1
                   /\ resolvePc' = LoopOrLeave(resolutionIteration + 1, "phase2", "finish")
    /\ UNCHANGED <<driverVars, diagnostics, codeLines, returned, importVars, sectionLocals,
                   expressions, inferVars,
                   bodyReferences, unResolvedSections, patternTrees>>

\* after the loops: the diagnostics and false, or expansion, variable scopes
\* and true
resolvePatterns_return ==
    /\ stage = "resolvePatterns"
    /\ resolvePc = "finish"
    /\ IF unResolvedSections /= <<>> \/ bodyReferences /= <<>> \/ globalReferences /= <<>>
       THEN /\ diagnostics' = diagnostics \o UnresolvedDiagnostics(sections, bodyReferences)
                                          \o UnresolvedDiagnostics(sections, globalReferences)
            /\ returned' = "false"
            /\ UNCHANGED <<sections, expressions>>
       ELSE /\ expressions' = ExpandAll(expressions, sections, lineState, 1)
            /\ sections' = ResolveVariableScopes(sections, unresolvedVariableReferences)
            /\ returned' = "true"
            /\ UNCHANGED diagnostics
    /\ resolvePc' = "returned"
    /\ UNCHANGED <<driverVars, codeLines, importVars, sectionLocals, inferVars, bodyReferences,
                   globalReferences, unResolvedSections, patternTrees,
                   unresolvedVariableReferences, resolutionIteration>>

compile_afterResolve ==
    /\ stage = "resolvePatterns"
    /\ resolvePc = "returned"
    /\ returned /= None
    /\ stage' = NextStageAfter(returned, "inferTypes")
    /\ stagesRun' = IF stage' = "done" THEN stagesRun ELSE stagesRun \cup {stage'}
    /\ compileResult' = IF stage' = "done" THEN "false" ELSE compileResult
    /\ returned' = None
    /\ UNCHANGED <<diagnostics, codeLines, importVars, sectionVars, resolveVars, inferVars>>

\* the programs of the model: definitions `effect <text>:` with an `execute:`
\* body, followed by lines of ordinary code
DefinitionTexts == {<<"f", " ", "a">>, <<"g", " ", "a">>}
IntrinsicLine(argument) == <<IntrinsicOpen, "\"use\"", ",", " ">> \o argument \o <<")">>
BodyLineTexts == {<<"g", " ", "a">>, IntrinsicLine(<<"a">>)}
\* the body of a definition: no line or one line
Bodies == {<<>>} \cup {<<t>> : t \in BodyLineTexts}
GlobalLineTexts == {<<"f", " ", "1">>, IntrinsicLine(<<"x">>)}
SeqsUpTo(S, n) == UNION {[1..k -> S] : k \in 0..n}
DefinitionBlocks ==
    {[text |-> t, body |-> b] : t \in DefinitionTexts, b \in Bodies}
Programs ==
    {[definitions |-> d, globals |-> g] :
        d \in SeqsUpTo(DefinitionBlocks, MaxDefinitions),
        g \in SeqsUpTo(GlobalLineTexts, MaxGlobalReferences)}

\* the merged lines of a program
BlockLines(block) ==
    <<(<<"effect", " ">> \o block.text \o <<":">>), <<" ", "execute", ":">>>>
        \o [k \in DOMAIN block.body |-> <<" ", " ">> \o block.body[k]]
ProgramLines(program) ==
    Flatten([k \in DOMAIN program.definitions |-> BlockLines(program.definitions[k])])
        \o program.globals

RECURSIVE AnalyzeLines(_, _, _)
\* the loop of analyzeSections over given lines
AnalyzeLines(s, lines, i) ==
    IF i > Len(lines) \/ s.returned /= None THEN s
    ELSE AnalyzeLines(AnalyzeLine(s, lines[i]), lines, i + 1)

\* the state in which compile calls resolvePatterns: a program of the model
\* has been imported and sectioned
ResolveStart(lines) ==
    /\ stage = "resolvePatterns"
    /\ stagesRun = {"importSourceFile", "analyzeSections", "resolvePatterns"}
    /\ compileResult = "running"
    /\ importedFiles = {"a.dl"}
    /\ fileComplete = [f \in Files |-> f = "/a.dl"]
    /\ rootPath = "a.dl"
    /\ callStack = <<>>
    /\ pendingCall = None
    /\ returned = None
    /\ loads = <<[sourceFile |-> "/a.dl", parent |-> 0, at |-> 0]>>
    /\ \E s \in {AnalyzeLines(SectioningStart, lines, 1)} :
              /\ fileSystem = [f \in Files |-> IF f = "/a.dl" THEN lines ELSE <<>>]
              /\ codeLines = [k \in DOMAIN lines |-> SectionCodeLine(lines[k], k - 1)]
              /\ diagnostics = s.diagnostics
              /\ sections = s.sections
              /\ expressions = s.expressions
              /\ lineState = s.lineState
              /\ currentSection = s.currentSection
              /\ indentString = s.indentString
              /\ indentLevel = s.indentLevel
              /\ compiledLineIndex = s.compiledLineIndex
    /\ ResolveNotStarted

InitResolve == \E program \in Programs : ResolveStart(ProgramLines(program))

NextResolve ==
    \/ resolvePatterns_begin
    \/ resolvePatterns_sections
    \/ resolvePatterns_bodyReferences
    \/ resolvePatterns_globalReferences
    \/ resolvePatterns_return
    \/ compile_afterResolve

SpecResolve == InitResolve /\ [][NextResolve]_vars

\* the programs with alternatives in their definitions: `[the|] r a`,
\* `[the|an] r a` and `r a`, called with and without the optional word
ChoiceDefinitionTexts ==
    {<<"[", "the", "|", "]", " ", "r", " ", "a">>,
     <<"[", "the", "|", "an", "]", " ", "r", " ", "a">>,
     <<"r", " ", "a">>}
ChoiceCallTexts == {<<"the", " ", "r", " ", "1">>, <<"r", " ", "1">>}
ChoiceBlocks ==
    {[text |-> t, body |-> <<IntrinsicLine(<<"a">>)>>] : t \in ChoiceDefinitionTexts}
ChoicePrograms ==
    {[definitions |-> d, globals |-> g] :
        d \in SeqsUpTo(ChoiceBlocks, MaxDefinitions),
        g \in SeqsUpTo(ChoiceCallTexts, MaxGlobalReferences + 1)}

InitChoice == \E program \in ChoicePrograms : ResolveStart(ProgramLines(program))

SpecChoice == InitChoice /\ [][NextResolve]_vars

\* the programs whose bodies mention a parameter more than once: the pattern
\* `a b a` without parameters, and `f a` whose body calls `a b a`, calls a
\* pattern `h a` that nobody defines, or uses its parameter
CountCallTexts == {<<"a", " ", "b", " ", "a">>, <<"h", " ", "a">>}
CountBodies ==
    {<<>>, <<IntrinsicLine(<<"a">>)>>}
        \cup {<<t>> : t \in CountCallTexts}
        \cup {<<t, u>> : t \in CountCallTexts, u \in CountCallTexts}
CountBlocks ==
    {[text |-> <<"a", " ", "b", " ", "a">>, body |-> <<>>]}
        \cup {[text |-> <<"f", " ", "a">>, body |-> b] : b \in CountBodies}
CountPrograms ==
    {[definitions |-> d, globals |-> g] :
        d \in SeqsUpTo(CountBlocks, MaxDefinitions),
        g \in SeqsUpTo({<<"f", " ", "1">>}, MaxGlobalReferences)}

InitCounts == \E program \in CountPrograms : ResolveStart(ProgramLines(program))

SpecCounts == InitCounts /\ [][NextResolve]_vars

\* the programs whose ordinary code uses the name of a parameter: `f a`
\* with no body, with a body that uses `a`, or with a body that calls a
\* pattern `h a` that nobody defines, followed by lines that use `a`, call
\* `f a` or call `f 1`
GlobalUseBlocks ==
    {[text |-> <<"f", " ", "a">>, body |-> b] :
        b \in {<<>>, <<IntrinsicLine(<<"a">>)>>, <<<<"h", " ", "a">>>>}}
GlobalUseTexts == {IntrinsicLine(<<"a">>), <<"f", " ", "a">>, <<"f", " ", "1">>}
GlobalUsePrograms ==
    {[definitions |-> d, globals |-> g] :
        d \in SeqsUpTo(GlobalUseBlocks, MaxDefinitions),
        g \in SeqsUpTo(GlobalUseTexts, MaxGlobalReferences + 1)}

InitGlobalUse == \E program \in GlobalUsePrograms : ResolveStart(ProgramLines(program))

SpecGlobalUse == InitGlobalUse /\ [][NextResolve]_vars

\* the programs with names used at several depths: the name `x` and the
\* custom section `s:`, indented by up to two spaces, in programs that
\* analyzeSections accepts without a diagnostic
MaxScopeLines == 6
ScopeTexts == {<<"x">>, <<" ", "x">>, <<" ", " ", "x">>, <<"s", ":">>, <<" ", "s", ":">>}
ScopePrograms ==
    {lines \in SeqsUpTo(ScopeTexts, MaxScopeLines) :
        \E s \in {AnalyzeLines(SectioningStart, lines, 1)} :
            s.returned = None /\ ~s.crashed /\ s.diagnostics = <<>>}

InitScopes == \E lines \in ScopePrograms : ResolveStart(lines)

SpecScopes == InitScopes /\ [][NextResolve]_vars

\* sectioning followed by resolution, line by line from the first line on:
\* the lines are indented with spaces and hold a name, a call of a pattern
\* nobody defines, or the opening of a section
PipelineBodies == LineBodies \cup {<<"x", " ", "y">>}
PipelineTexts == {Spaces(n) \o body : n \in 0..MaxIndent, body \in PipelineBodies}

analyzeSections_pipelineLine == AnalyzeNextLine(PipelineTexts)

NextPipeline ==
    \/ analyzeSections_pipelineLine
    \/ analyzeSections_return
    \/ compile_afterSections
    \/ NextResolve

SpecPipeline == InitSections /\ [][NextPipeline]_vars

\* ------------------------------------------------------------------------
\* Properties of stage 3
\* ------------------------------------------------------------------------
AllReferences ==
    UNION {{<<x, k>> : k \in DOMAIN sections[x].patternReferences} : x \in DOMAIN sections}
StillUnresolved == {r \in AllReferences : ~RefOf(sections, r).resolved}
ResolveReturned == stage = "resolvePatterns" /\ resolvePc = "returned"
CouldNotResolve(r) ==
    {i \in DOMAIN diagnostics :
        diagnostics[i] = CouldNotResolveDiagnostic(RefOf(sections, r).line)}

\* C1: resolvePatterns returns failure exactly when some body or global
\* reference is still unresolved after the two bounded phases, and then it
\* has appended exactly one "could not be resolved" Error for each of them.
C1_FailureExactlyWhenUnresolved ==
    ResolveReturned =>
        /\ returned = "false" <=> StillUnresolved /= {}
        /\ returned = "false" =>
              /\ \A r \in StillUnresolved : Cardinality(CouldNotResolve(r)) = 1
              /\ Len(diagnostics) = Cardinality(StillUnresolved)

PromotedToVariable(reference) ==
    /\ ~reference.match.matched
    /\ Len(reference.patternElements) = 1
    /\ reference.patternElements[1].type = "Variable"

\* C2: when resolvePatterns returns success every collected reference is
\* resolved, with a match attached or as a single identifier promoted to a
\* variable; no reference is resolved more than once, and a resolved
\* reference never becomes unresolved again.
C2_SuccessMeansAllResolved ==
    /\ []((ResolveReturned /\ returned = "true") =>
             \A r \in AllReferences :
                 /\ RefOf(sections, r).resolved
                 /\ RefOf(sections, r).match.matched \/ PromotedToVariable(RefOf(sections, r)))
    /\ [](\A r \in AllReferences :
             /\ RefOf(sections, r).resolveCalls <= 1
             /\ RefOf(sections, r).resolved <=> RefOf(sections, r).resolveCalls = 1)
    /\ [][\A r \in AllReferences :
             RefOf(sections, r).resolved => RefOf(sections', r).resolved]_vars

\* success for a program in which one reference matched a definition and
\* another was promoted to a variable
C2_Witness ==
    /\ ResolveReturned
    /\ returned = "true"
    /\ \E r \in AllReferences : RefOf(sections, r).match.matched
    /\ \E r \in AllReferences : PromotedToVariable(RefOf(sections, r))

\* ------------------------------------------------------------------------
\* Stage 4: inferTypes
\* ------------------------------------------------------------------------
\* the pass limit of the loop of inferTypes
InferenceIterations == 64

\* An int64_t is held as high * 2^31 + low with 0 <= low < 2^31.
Int64(high, low) == [high |-> high, low |-> low]
Int64Less(a, b) == a.high < b.high \/ (a.high = b.high /\ a.low < b.low)
INT32_MIN == Int64(-1, 0)
INT32_MAX == Int64(0, 2147483647)

\* std::stoll of a number literal of the model's texts
stoll(tok) ==
    CASE tok = "1" -> Int64(0, 1)
      [] tok = "4" -> Int64(0, 4)
      [] tok = "32" -> Int64(0, 32)
      [] tok = "4294967296" -> Int64(2, 0)
      [] OTHER -> Int64(0, 0)

\* `*bits / 8` for the bit size of a cast, a number that is not negative
BitsToBytes(bits) == bits.high * 268435456 + (bits.low \div 8)

Numeric == Type("Numeric", 0)
Void == Type("Void", 0)
\* {Type::Kind::Integer, 1, 1}: the type of a string literal
BytePointer == [Type("Integer", 1) EXCEPT !.pointerDepth = 1]

\* Type::fromString, for a string that names a type
fromString(str) ==
    CASE str = "void" -> Void
      [] str = "bool" -> Type("Bool", 0)
      [] str = "i8"   -> Type("Integer", 1)
      [] str = "i16"  -> Type("Integer", 2)
      [] str = "i32"  -> Type("Integer", 4)
      [] str = "i64"  -> Type("Integer", 8)
      [] str = "f32"  -> Type("Float", 4)
      [] str = "f64"  -> Type("Float", 8)
      [] str = "pointer" -> [Type("Integer", 8) EXCEPT !.pointerDepth = 1]
      [] str = "string"  -> Type("String", 0)

\* Type::canRefineTo
canRefineTo(type, target) ==
    IF ~isDeduced(type) THEN TRUE
    ELSE IF type.pointerDepth /= target.pointerDepth THEN FALSE
    ELSE \/ type.kind = "Numeric" /\ target.kind \in {"Integer", "Float"}
         \/ type.kind = target.kind /\ type.kind \in {"Integer", "Float"} /\ type.byteSize = 0

\* struct Instantiation, and a null Instantiation pointer; a pointer to an
\* Instantiation names the section and the key of the map entry
Instantiation == [returnType |-> Undeduced]
NoInstantiation == [section |-> 0, argTypes |-> <<>>]

\* an empty map of macro bindings (parameter name to Expression)
NoBindings == [n \in {} |-> 0]

\* expr->variable->name
VariableName(secs, v) == secs[v[1]].variableReferences[v[2]].name

RECURSIVE findVariable(_, _, _)
\* Section::findVariable: the section whose variables hold the name, 0 for
\* nullptr
findVariable(secs, sec, name) ==
    IF sec = 0 THEN 0
    ELSE IF name \in DOMAIN secs[sec].variables THEN sec
    ELSE findVariable(secs, secs[sec].parent, name)

RECURSIVE resolveVarThroughMacro(_, _, _, _)
resolveVarThroughMacro(exprs, secs, e, macroBindings) ==
    IF e = 0 THEN e
    ELSE IF exprs[e].kind /= "Variable" \/ exprs[e].variable = NoVariableReference THEN e
    ELSE IF /\ VariableName(secs, exprs[e].variable) \in DOMAIN macroBindings
            /\ macroBindings[VariableName(secs, exprs[e].variable)] /= e
    THEN resolveVarThroughMacro(exprs, secs,
                                macroBindings[VariableName(secs, exprs[e].variable)],
                                macroBindings)
    ELSE e

resolveTypeThroughMacro(exprs, secs, e, macroBindings) ==
    LET Of(resolved) == IF resolved = 0 THEN Undeduced ELSE exprs[resolved].type
    IN  Of(resolveVarThroughMacro(exprs, secs, e, macroBindings))

\* sortArgumentsByPosition: by range.start(); arguments that start at the
\* same place keep their order
sortArgumentsByPosition_unsorted(exprs, args) == args
sortArgumentsByPosition(exprs, args) ==
    LET Before(i, j) ==
            \/ exprs[args[i]].start < exprs[args[j]].start
            \/ exprs[args[i]].start = exprs[args[j]].start /\ i < j
        Rank(i) == Cardinality({j \in DOMAIN args : Before(j, i)}) + 1
    IN  [r \in DOMAIN args |-> args[CHOOSE i \in DOMAIN args : Rank(i) = r]]

RECURSIVE BindParameters(_, _, _, _, _, _, _, _)
\* the loop over patternMatch->nodesPassed that fills callBindings: the
\* parameters bound, in the order of the nodes, each with its argument
BindParameters(exprs, secs, tree, match, sortedArgs, macroBindings, k, bound) ==
    IF k > Len(match.nodesPassed) THEN bound
    ELSE LET names == tree[match.nodesPassed[k]].parameterNames
             actualArg == sortedArgs[Len(bound) + 1]
             viaMacro ==
                 IF /\ exprs[actualArg].kind = "Variable"
                    /\ exprs[actualArg].variable /= NoVariableReference
                    /\ VariableName(secs, exprs[actualArg].variable) \in DOMAIN macroBindings
                 THEN macroBindings[VariableName(secs, exprs[actualArg].variable)]
                 ELSE actualArg
         IN  BindParameters(exprs, secs, tree, match, sortedArgs, macroBindings, k + 1,
                            IF match.definition \in DOMAIN names /\ Len(bound) < Len(sortedArgs)
                            THEN Append(bound, [name |-> names[match.definition],
                                                expression |-> viaMacro])
                            ELSE bound)

\* callBindings as a map: the last binding of a name is the one kept
CallBindings(bound) ==
    [n \in {bound[k].name : k \in DOMAIN bound} |->
        bound[CHOOSE k \in DOMAIN bound :
                 /\ bound[k].name = n
                 /\ \A j \in DOMAIN bound : bound[j].name = n => j <= k].expression]

\* what inferExpressionType and inferMacroBody work on: the Expression
\* objects, the sections, `changed` so far, and whether the call never returns
InferenceState(exprs, secs, changed, diverged) ==
    [expressions |-> exprs, sections |-> secs, changed |-> changed, diverged |-> diverged,
     stores |-> <<>>]

\* the type a macro call takes from the lines of the replacement sections:
\* the last deduced one
MacroType(exprs, secs, section, old) ==
    LET lines == Flatten([c \in DOMAIN secs[section].children |->
                             secs[secs[section].children[c]].codeLines])
        typed == {k \in DOMAIN lines :
                     /\ lineState[lines[k]].expression /= 0
                     /\ isDeduced(exprs[lineState[lines[k]].expression].type)}
    IN  IF typed = {} THEN old
        ELSE exprs[lineState[lines[CHOOSE k \in typed : \A j \in typed : j <= k]].expression].type

RECURSIVE inferExpressionType(_, _, _, _, _)
RECURSIVE InferArguments(_, _, _, _, _, _)
RECURSIVE InferLines(_, _, _, _, _, _)
RECURSIVE InferChildren(_, _, _, _, _, _)
RECURSIVE inferMacroBody(_, _, _, _, _)

\* inferExpressionType for the intrinsics "store", "return" and "cast" (any other
\* name of the model's texts is one the function has no case for).  inst is
\* context.currentInstantiation; active holds the sections whose
\* inferMacroBody is on the call stack.
inferExpressionType(t, e, macroBindings, inst, active) ==
    LET SetType(s, type) == [s EXCEPT !.expressions[e].type = type]
        Deduced(s, type) == IF isDeduced(type) THEN SetType(s, type) ELSE s
        HomeOf(s, x) == lineState[s.expressions[x].line].section
        Literal(s) ==
            IF s.expressions[e].literalValue.holds = "int64_t" THEN SetType(s, Numeric)
            ELSE IF s.expressions[e].literalValue.holds = "string" THEN SetType(s, BytePointer)
            ELSE s
        InScope(s, holder, name) ==
            IF holder = 0 THEN s ELSE Deduced(s, s.sections[holder].variables[name].type)
        Named(s, name) ==
            IF name \in DOMAIN macroBindings
            THEN Deduced(s, s.expressions[macroBindings[name]].type)
            ELSE InScope(s, findVariable(s.sections, HomeOf(s, e), name), name)
        VariableCase(s) ==
            IF s.expressions[e].variable = NoVariableReference THEN s
            ELSE Named(s, VariableName(s.sections, s.expressions[e].variable))
        Refine(s, holder, name, valType) ==
            IF holder /= 0 /\ canRefineTo(s.sections[holder].variables[name].type, valType)
            THEN [s EXCEPT !.sections[holder].variables[name].type = valType,
                           !.changed = TRUE,
                           !.stores = Append(@, [holder |-> holder, name |-> name,
                                                 from |-> s.sections[holder].variables[name].type,
                                                 to |-> valType])]
            ELSE s
        StoreInto(s, name, home, valType) ==
            Refine(s, findVariable(s.sections, home, name), name, valType)
        StoreTo(s, destExpr, valType) ==
            IF /\ s.expressions[destExpr].kind = "Variable"
               /\ s.expressions[destExpr].variable /= NoVariableReference
               /\ isDeduced(valType)
            THEN StoreInto(s, VariableName(s.sections, s.expressions[destExpr].variable),
                           HomeOf(s, destExpr), valType)
            ELSE s
        Store(s) ==
            SetType(IF Len(s.expressions[e].arguments) >= 3
                    THEN StoreTo(s,
                                 resolveVarThroughMacro(s.expressions, s.sections,
                                                        s.expressions[e].arguments[2],
                                                        macroBindings),
                                 resolveTypeThroughMacro(s.expressions, s.sections,
                                                         s.expressions[e].arguments[3],
                                                         macroBindings))
                    ELSE s,
                    Void)
        Returned(s, retType) ==
            IF ~isDeduced(retType) THEN s
            ELSE IF inst = NoInstantiation THEN SetType(s, retType)
            ELSE [SetType(s, retType) EXCEPT
                     !.sections[inst.section].instantiations[inst.argTypes].returnType = retType]
        Return(s) ==
            IF Len(s.expressions[e].arguments) >= 2
            THEN Returned(s, resolveTypeThroughMacro(s.expressions, s.sections,
                                                     s.expressions[e].arguments[2],
                                                     macroBindings))
            ELSE s
        Sized(s, kind) ==
            SetType(s, Type(kind,
                            IF /\ Len(s.expressions[e].arguments) >= 4
                               /\ s.expressions[s.expressions[e].arguments[4]].literalValue.holds
                                      = "int64_t"
                            THEN BitsToBytes(stoll(
                                     s.expressions[s.expressions[e].arguments[4]].literalValue.value))
                            ELSE 8))
        CastTo(s, targetStr) ==
            IF targetStr = "integer" THEN Sized(s, "Integer")
            ELSE IF targetStr = "float" THEN Sized(s, "Float")
            ELSE IF targetStr /= "" THEN SetType(s, fromString(targetStr))
            ELSE s
        Cast(s) ==
            IF Len(s.expressions[e].arguments) < 3 THEN s
            ELSE IF resolveTypeThroughMacro(s.expressions, s.sections,
                                            s.expressions[e].arguments[3],
                                            macroBindings).kind = "TypeReference"
            THEN SetType(s, Type("Class", 0))
            ELSE CastTo(s, IF s.expressions[s.expressions[e].arguments[3]].literalValue.holds
                                 = "string"
                           THEN s.expressions[s.expressions[e].arguments[3]].literalValue.value
                           ELSE "")
        Intrinsic(s) ==
            IF s.expressions[e].intrinsicName = "store" THEN Store(s)
            ELSE IF s.expressions[e].intrinsicName = "return" THEN Return(s)
            ELSE IF s.expressions[e].intrinsicName = "cast" THEN Cast(s)
            ELSE s
        Created(s, section, key) ==
            IF key \in DOMAIN s.sections[section].instantiations THEN s
            ELSE [s EXCEPT !.sections[section].instantiations = (key :> Instantiation) @@ @]
        AfterBody(s, section, key) ==
            Deduced(s, s.sections[section].instantiations[key].returnType)
        AfterMacro(s, section) ==
            SetType(s, MacroType(s.expressions, s.sections, section, s.expressions[e].type))
        Instantiated(s, section, callBindings, key) ==
            CHOOSE after \in
                {AfterBody(body, section, key) :
                    body \in {inferMacroBody(created, section, callBindings,
                                             [section |-> section, argTypes |-> key], active) :
                                  created \in {Created(s, section, key)}}} : TRUE
        Bound(s, section, bound, callBindings) ==
            IF s.sections[section].type = "Class" THEN SetType(s, Type("TypeReference", 0))
            ELSE IF s.sections[section].type = "Effect"
            THEN CHOOSE after \in
                     {SetType(body, Void) :
                         body \in {inferMacroBody(s, section, callBindings, inst, active)}} : TRUE
            ELSE IF s.sections[section].isMacro
            THEN CHOOSE after \in
                     {AfterMacro(body, section) :
                         body \in {inferMacroBody(s, section, callBindings, inst, active)}} : TRUE
            ELSE CHOOSE after \in
                     {Instantiated(s, section, callBindings, key) :
                         key \in {[k \in DOMAIN bound |->
                                     resolveTypeThroughMacro(s.expressions, s.sections,
                                                             callBindings[bound[k].name],
                                                             macroBindings)]}} : TRUE
        Called(s, match) ==
            CHOOSE after \in
                {Bound(s, match.definition[1], bound, callBindings) :
                    <<bound, callBindings>> \in
                        {<<b, CallBindings(b)>> :
                            b \in {BindParameters(
                                      s.expressions, s.sections,
                                      patternTrees[TreeTypeOf(s.sections[match.definition[1]])],
                                      match,
                                      sortArgumentsByPosition(s.expressions,
                                                              s.expressions[e].arguments),
                                      macroBindings, 1, <<>>)}}} : TRUE
        PatternCall(s) ==
            IF s.expressions[e].patternMatch.matched
            THEN Called(s, s.expressions[e].patternMatch)
            ELSE s
        Own(s) ==
            IF s.expressions[e].kind = "Literal" THEN Literal(s)
            ELSE IF s.expressions[e].kind = "Variable" THEN VariableCase(s)
            ELSE IF s.expressions[e].kind = "IntrinsicCall" THEN Intrinsic(s)
            ELSE IF s.expressions[e].kind = "PatternCall" THEN PatternCall(s)
            ELSE s
        Finish(before, after) ==
            [after EXCEPT !.changed =
                @ \/ after.expressions[e].type /= before.expressions[e].type]
        Visit(s) ==
            IF s.diverged THEN s
            ELSE CHOOSE after \in {Finish(s, own) : own \in {Own(s)}} : TRUE
    IN  IF e = 0 \/ t.diverged THEN t
        ELSE CHOOSE after \in
                 {Visit(s) : s \in {InferArguments(t, e, 1, macroBindings, inst, active)}} : TRUE

\* the loop of inferExpressionType over expr->arguments
InferArguments(t, e, i, macroBindings, inst, active) ==
    IF i > Len(t.expressions[e].arguments) THEN t
    ELSE CHOOSE after \in
             {InferArguments(s, e, i + 1, macroBindings, inst, active) :
                 s \in {inferExpressionType(t, t.expressions[e].arguments[i], macroBindings,
                                            inst, active)}} : TRUE

\* a loop over code lines that infers each line's expression
InferLines(t, lines, i, bindings, inst, active) ==
    IF i > Len(lines) THEN t
    ELSE CHOOSE after \in
             {InferLines(s, lines, i + 1, bindings, inst, active) :
                 s \in {inferExpressionType(t, lineState[lines[i]].expression, bindings, inst,
                                            active)}} : TRUE

\* the loop of inferMacroBody over section->children
InferChildren(t, section, i, bindings, inst, active) ==
    IF i > Len(t.sections[section].children) THEN t
    ELSE CHOOSE after \in
             {InferChildren(s, section, i + 1, bindings, inst, active) :
                 s \in {inferMacroBody(t, t.sections[section].children[i], bindings, inst,
                                       active)}} : TRUE

\* inferMacroBody.  The calls made for a section do not depend on any type,
\* so a call for a section whose inferMacroBody is already on the stack
\* repeats itself without end: it never returns.
inferMacroBody(t, section, bindings, inst, active) ==
    IF t.diverged THEN t
    ELSE IF section \in active THEN [t EXCEPT !.diverged = TRUE]
    ELSE CHOOSE after \in
             {InferChildren(s, section, 1, bindings, inst, within) :
                 <<s, within>> \in
                     {<<InferLines(t, t.sections[section].codeLines, 1, bindings, inst, a), a>> :
                         a \in {active \cup {section}}}} : TRUE

\* one pass of the loop of inferTypes over context.codeLines
InferPass(exprs, secs) ==
    CHOOSE after \in
        {InferLines(t, lines, 1, NoBindings, NoInstantiation, {}) :
            <<t, lines>> \in {<<InferenceState(exprs, secs, FALSE, FALSE),
                                [k \in DOMAIN lineState |-> k]>>}} : TRUE

\* {Type::Kind::Integer, 4} for a Numeric type
DefaultType_keep(type) == type
DefaultType(type) == IF type.kind = "Numeric" THEN Type("Integer", 4) ELSE type

RECURSIVE defaultNumericExpressions(_, _)
RECURSIVE DefaultArguments(_, _, _)
defaultNumericExpressions(exprs, e) ==
    LET wide == /\ exprs[e].kind = "Literal"
                /\ exprs[e].literalValue.holds = "int64_t"
                /\ \/ Int64Less(stoll(exprs[e].literalValue.value), INT32_MIN)
                   \/ Int64Less(INT32_MAX, stoll(exprs[e].literalValue.value))
        Own == IF exprs[e].type.kind = "Numeric"
               THEN [exprs EXCEPT ![e].type = Type("Integer", IF wide THEN 8 ELSE 4)]
               ELSE exprs
    IN  IF e = 0 THEN exprs
        ELSE CHOOSE after \in {DefaultArguments(own, e, 1) : own \in {Own}} : TRUE

DefaultArguments(exprs, e, i) ==
    IF i > Len(exprs[e].arguments) THEN exprs
    ELSE CHOOSE after \in
             {DefaultArguments(x, e, i + 1) :
                 x \in {defaultNumericExpressions(exprs, exprs[e].arguments[i])}} : TRUE

RECURSIVE DefaultLines(_, _)
\* the loop of inferTypes that defaults every line's expression
DefaultLines(exprs, i) ==
    IF i > Len(lineState) THEN exprs
    ELSE CHOOSE after \in
             {DefaultLines(x, i + 1) :
                 x \in {defaultNumericExpressions(exprs, lineState[i].expression)}} : TRUE

\* Type::operator<
TypeLess(a, b) ==
    LET KindOrder(kind) ==
            CASE kind = "Undeduced" -> 0 [] kind = "Void" -> 1 [] kind = "Bool" -> 2
              [] kind = "Numeric" -> 3 [] kind = "Integer" -> 4 [] kind = "Float" -> 5
              [] OTHER -> 6
    IN  IF a.kind /= b.kind THEN KindOrder(a.kind) < KindOrder(b.kind)
        ELSE IF a.byteSize /= b.byteSize THEN a.byteSize < b.byteSize
        ELSE a.pointerDepth < b.pointerDepth

RECURSIVE KeyLess(_, _, _)
\* the order of the keys of std::map<std::vector<Type>, Instantiation>
KeyLess(a, b, i) ==
    IF i > Len(b) THEN FALSE
    ELSE IF i > Len(a) THEN TRUE
    ELSE IF TypeLess(a[i], b[i]) THEN TRUE
    ELSE IF TypeLess(b[i], a[i]) THEN FALSE
    ELSE KeyLess(a, b, i + 1)

RECURSIVE defaultNumericTypes(_, _)
RECURSIVE DefaultChildren(_, _, _)
\* defaultNumericTypes: the variables, then the instantiation map rebuilt in
\* key order (of two keys that default to the same key the greater one
\* stays), then the children
defaultNumericTypes(secs, section) ==
    LET variables == secs[section].variables
        insts == secs[section].instantiations
        Defaulted(key) == [k \in DOMAIN key |-> DefaultType(key[k])]
        Source(d) ==
            CHOOSE key \in DOMAIN insts :
                /\ Defaulted(key) = d
                /\ \A other \in DOMAIN insts : Defaulted(other) = d => ~KeyLess(key, other, 1)
    IN  CHOOSE after \in
            {DefaultChildren(own, section, 1) :
                own \in
                    {[secs EXCEPT
                         ![section].variables =
                             [n \in DOMAIN variables |->
                                 [variables[n] EXCEPT !.type = DefaultType(@)]],
                         ![section].instantiations =
                             [d \in {Defaulted(key) : key \in DOMAIN insts} |->
                                 [returnType |-> DefaultType(insts[Source(d)].returnType)]]]}} :
            TRUE

DefaultChildren(secs, section, i) ==
    IF i > Len(secs[section].children) THEN secs
    ELSE CHOOSE after \in
             {DefaultChildren(x, section, i + 1) :
                 x \in {defaultNumericTypes(secs, secs[section].children[i])}} : TRUE

RECURSIVE JoinTokens(_)
\* the characters of a name as one string
JoinTokens(name) == IF name = <<>> THEN "" ELSE Head(name) \o JoinTokens(Tail(name))

NoTypeMessage(name) ==
    ("Variable '" \o JoinTokens(name)) \o "' has no type (never assigned a value)"
NoTypeDiagnostic(name, line) == Diagnostic("Error", NoTypeMessage(name), line)

\* the sequences that hold every element of S once
Orderings(S) ==
    {order \in [1..Cardinality(S) -> S] : \A n \in S : \E k \in DOMAIN order : order[k] = n}

\* section->variables is a std::unordered_map: the order in which a loop
\* visits its entries is not specified.  An iteration order gives every
\* section one order of its variables' names.
IterationOrders(secs) ==
    {order \in [DOMAIN secs ->
                    UNION {Orderings(DOMAIN secs[x].variables) : x \in DOMAIN secs}] :
        \A x \in DOMAIN secs : order[x] \in Orderings(DOMAIN secs[x].variables)}

RECURSIVE validateVariables(_, _, _)
RECURSIVE ValidateChildren(_, _, _, _)
RECURSIVE UntypedDiagnostics(_, _, _, _)
\* the Errors for the variables of a section that have no type, in the
\* order the loop visits them
UntypedDiagnostics(secs, section, names, i) ==
    IF i > Len(names) THEN <<>>
    ELSE LET variable == secs[section].variables[names[i]]
             definition == variable.definition
         IN  (IF isDeduced(variable.type) THEN <<>>
              ELSE <<NoTypeDiagnostic(names[i],
                                      secs[definition[1]].variableReferences[definition[2]].line)>>)
                 \o UntypedDiagnostics(secs, section, names, i + 1)

\* the lambda validateVariables of inferTypes: the diagnostics it pushes
validateVariables(secs, section, order) ==
    LET parent == secs[section].parent
    IN  IF /\ parent /= 0
           /\ ~secs[parent].isMacro
           /\ secs[parent].patternDefinitions /= <<>>
        THEN <<>>
        ELSE UntypedDiagnostics(secs, section, order[section], 1)
                 \o ValidateChildren(secs, section, 1, order)

ValidateChildren(secs, section, i, order) ==
    IF i > Len(secs[section].children) THEN <<>>
    ELSE validateVariables(secs, secs[section].children[i], order)
             \o ValidateChildren(secs, section, i + 1, order)

\* the loop of inferTypes: one pass over the code lines, then the test that
\* ends the loop.  A pass that never returns ends the process.
inferTypes_pass ==
    /\ stage = "inferTypes"
    /\ inferPc = "passes"
    /\ \E p \in {InferPass(expressions, sections)} :
           IF p.diverged
           THEN /\ stage' = "crashed"
                /\ UNCHANGED <<expressions, sections, inferVars>>
           ELSE /\ expressions' = p.expressions
                /\ sections' = p.sections
                /\ inferPasses' = Append(inferPasses, p.changed)
                /\ inferPc' = IF p.changed /\ Len(inferPasses) + 1 < InferenceIterations
                              THEN "passes" ELSE "defaults"
                /\ UNCHANGED stage
    /\ UNCHANGED <<stagesRun, compileResult, diagnostics, codeLines, returned, importVars,
                   sectionLocals, resolveVars>>

\* after the loop: the Numeric types that are left become sized Integers
inferTypes_defaults ==
    /\ stage = "inferTypes"
    /\ inferPc = "defaults"
    /\ expressions' = DefaultLines(expressions, 1)
    /\ sections' = defaultNumericTypes(sections, 1)
    /\ inferPc' = "validate"
    /\ UNCHANGED <<driverVars, diagnostics, codeLines, returned, importVars, sectionLocals,
                   resolveVars, inferPasses>>

\* validation and return.  validateExpressionTypes has checks for the
\* arithmetic, comparison and negate intrinsics only, none of which the
\* model's texts hold: the result is that of validateVariables.
inferTypes_return ==
    /\ stage = "inferTypes"
    /\ inferPc = "validate"
    /\ \E order \in IterationOrders(sections) :
           \E pushed \in {validateVariables(sections, 1, order)} :
               /\ diagnostics' = diagnostics \o pushed
               /\ returned' = IF pushed = <<>> THEN "true" ELSE "false"
    /\ inferPc' = "returned"
    /\ UNCHANGED <<driverVars, codeLines, importVars, sectionVars, resolveVars, inferPasses>>

\* compile returns what inferTypes returned
compile_afterInfer ==
    /\ stage = "inferTypes"
    /\ inferPc = "returned"
    /\ returned /= None
    /\ stage' = "done"
    /\ compileResult' = returned
    /\ returned' = None
    /\ UNCHANGED <<stagesRun, diagnostics, codeLines, importVars, sectionVars, laterVars>>

\* the programs given to inferTypes: some of four definitions, in this
\* order, followed by lines of ordinary code
\*   expression id a:     effect h:     effect p:     effect q:
\*    get:                 execute:      execute:      execute:
\*     @intrinsic("return", a)   h             q             p
MaxInferGlobals == 2
IntrinsicCallLine(name, arguments) == <<IntrinsicOpen, name, ",", " ">> \o arguments \o <<")">>
EffectBlock(text, body) ==
    <<(<<"effect", " ">> \o text \o <<":">>), <<" ", "execute", ":">>, <<" ", " ">> \o body>>
InferBlocks ==
    << <<<<"expression", " ", "id", " ", "a", ":">>, <<" ", "get", ":">>,
         <<" ", " ">> \o IntrinsicCallLine("\"return\"", <<"a">>)>>,
       EffectBlock(<<"h">>, <<"h">>),
       EffectBlock(<<"p">>, <<"q">>),
       EffectBlock(<<"q">>, <<"p">>),
       \* a body that calls a pattern no program of the model defines
       EffectBlock(<<"u">>, <<"w", " ", "1">>),
       \* code directly under an effect definition, without `execute:`
       <<<<"effect", " ", "e", ":">>, <<" ">> \o IntrinsicCallLine("\"use\"", <<"1">>)>> >>
InferGlobalTexts ==
    {IntrinsicCallLine("\"store\"", <<"y", ",", " ", "id", " ", "x">>),
     IntrinsicCallLine("\"store\"", <<"x", ",", " ", "1">>),
     IntrinsicCallLine("\"use\"", <<"id", " ", "1">>),
     IntrinsicCallLine("\"use\"", <<"4294967296">>)}

RECURSIVE ChosenLines(_, _)
ChosenLines(chosen, k) ==
    IF k > Len(InferBlocks) THEN <<>>
    ELSE (IF k \in chosen THEN InferBlocks[k] ELSE <<>>) \o ChosenLines(chosen, k + 1)

InferPrograms ==
    {ChosenLines(chosen, 1) \o globals :
        chosen \in SUBSET (DOMAIN InferBlocks),
        globals \in SeqsUpTo(InferGlobalTexts, MaxInferGlobals)}

\* compile from the call of resolvePatterns on
InitInfer == \E lines \in InferPrograms : ResolveStart(lines)

NextInfer ==
    \/ resolvePatterns_begin
    \/ resolvePatterns_sections
    \/ resolvePatterns_bodyReferences
    \/ resolvePatterns_globalReferences
    \/ resolvePatterns_return
    \/ compile_afterResolve
    \/ inferTypes_pass
    \/ inferTypes_defaults
    \/ inferTypes_return
    \/ compile_afterInfer

SpecInfer == InitInfer /\ [][NextInfer]_vars

\* the programs with calls of two parameters: `g a b` and `a to b`, whose
\* bodies use both parameters, called with numbers and names in either place
BindDefinitionTexts == {<<"g", " ", "a", " ", "b">>, <<"a", " ", "to", " ", "b">>}
BindCallTexts ==
    {<<"g", " ", "1", " ", "x">>, <<"g", " ", "x", " ", "1">>, <<"g", " ", "x", " ", "y">>,
     <<"1", " ", "to", " ", "x">>, <<"x", " ", "to", " ", "4294967296">>}
BindBlocks ==
    {[text |-> t, body |-> <<IntrinsicCallLine("\"use\"", <<"a", ",", " ", "b">>)>>] :
        t \in BindDefinitionTexts}
BindPrograms ==
    {[definitions |-> d, globals |-> g] :
        d \in SeqsUpTo(BindBlocks, MaxDefinitions),
        g \in SeqsUpTo(BindCallTexts, MaxGlobalReferences + 1)}

InitBind == \E program \in BindPrograms : ResolveStart(ProgramLines(program))

SpecBind == InitBind /\ [][NextInfer]_vars

\* the programs that store into variables: two macros that cast their
\* argument, to 4 and to 32 bits, and lines that store a number, another
\* variable or a cast into x or y
\*   macro expression nibble a:                macro expression word a:
\*    replacement:                               replacement:
\*     @intrinsic("cast", a, "integer", 4)        @intrinsic("cast", a, "integer", 32)
MaxStoreLines == 3
CastBlock(name, bits) ==
    <<<<"macro", " ", "expression", " ", name, " ", "a", ":">>,
      <<" ", "replacement", ":">>,
      <<" ", " ">> \o IntrinsicCallLine("\"cast\"",
                                        <<"a", ",", " ", "\"integer\"", ",", " ", bits>>)>>
StoreTexts ==
    {IntrinsicCallLine("\"store\"", <<"x", ",", " ", "1">>),
     IntrinsicCallLine("\"store\"", <<"x", ",", " ", "y">>),
     IntrinsicCallLine("\"store\"", <<"y", ",", " ", "nibble", " ", "1">>),
     IntrinsicCallLine("\"store\"", <<"y", ",", " ", "word", " ", "1">>),
     IntrinsicCallLine("\"store\"", <<"x", ",", " ", "word", " ", "1">>)}
StorePrograms ==
    {CastBlock("nibble", "4") \o CastBlock("word", "32") \o globals :
        globals \in SeqsUpTo(StoreTexts, MaxStoreLines)}

InitStore == \E lines \in StorePrograms : ResolveStart(lines)

SpecStore == InitStore /\ [][NextInfer]_vars

\* the programs with a pattern that returns its argument through a variable
\* of its body
\*   expression w a:
\*    get:
\*     @intrinsic("store", t, a)
\*     @intrinsic("return", t)
\* followed by lines that store `w 1` or `w x`, or a string or a number into x
MaxSharedLines == 3
SharedBlock ==
    <<<<"expression", " ", "w", " ", "a", ":">>, <<" ", "get", ":">>,
      <<" ", " ">> \o IntrinsicCallLine("\"store\"", <<"t", ",", " ", "a">>),
      <<" ", " ">> \o IntrinsicCallLine("\"return\"", <<"t">>)>>
SharedTexts ==
    {IntrinsicCallLine("\"store\"", <<"p", ",", " ", "w", " ", "1">>),
     IntrinsicCallLine("\"store\"", <<"q", ",", " ", "w", " ", "x">>),
     IntrinsicCallLine("\"store\"", <<"x", ",", " ", "\"use\"">>),
     IntrinsicCallLine("\"store\"", <<"x", ",", " ", "1">>)}
SharedPrograms ==
    {SharedBlock \o globals : globals \in SeqsUpTo(SharedTexts, MaxSharedLines)}

InitShared == \E lines \in SharedPrograms : ResolveStart(lines)

SpecShared == InitShared /\ [][NextInfer]_vars

\* the steps of inferTypes and the return to compile
inferTypes ==
    \/ inferTypes_pass
    \/ inferTypes_defaults
    \/ inferTypes_return
    \/ compile_afterInfer

\* compile is one thread that runs on: once inferTypes is called, a step of
\* it that can be taken is taken
SpecInferFair == SpecInfer /\ WF_vars(inferTypes)

\* ------------------------------------------------------------------------
\* Properties of stage 4
\* ------------------------------------------------------------------------
InferReturned == stage = "inferTypes" /\ inferPc = "returned"
InferLoopLeft == inferPc /= "passes"

\* C3: inferTypes terminates for every successfully resolved program, also
\* when a pattern's body calls the pattern itself, directly or through other
\* patterns: once called it returns, having made at most 64 passes over the
\* code lines and having stopped at the first pass that changed no type.
C3_InferTypesTerminates ==
    /\ (stage = "inferTypes") ~> InferReturned
    /\ [](Len(inferPasses) <= InferenceIterations)
    /\ [](InferLoopLeft =>
             /\ \A k \in 1..(Len(inferPasses) - 1) : inferPasses[k]
             /\ ~inferPasses[Len(inferPasses)] \/ Len(inferPasses) = InferenceIterations)

\* the non-macro definition sections
FunctionSections ==
    {x \in DOMAIN sections : sections[x].patternDefinitions /= <<>> /\ ~sections[x].isMacro}

\* C4: after inferTypes has returned success, every Instantiation in the
\* instantiations map of a non-macro definition section has a deduced return
\* type, whatever the argument types of its key.
C4_InstantiationsHaveReturnTypes ==
    (InferReturned /\ returned = "true") =>
        \A x \in FunctionSections :
            \A key \in DOMAIN sections[x].instantiations :
                isDeduced(sections[x].instantiations[key].returnType)


\* ------------------------------------------------------------------------
\* Properties of compile as a whole
\* ------------------------------------------------------------------------
CompileReturned == stage = "done"

\* C13: compile returns failure whenever a stage has pushed an Error
\* diagnostic; it returns success only if the diagnostics hold no Error.
C13_ErrorMeansFailure ==
    (CompileReturned /\ Errors(diagnostics) /= {}) => compileResult = "false"

\* the Errors with which compile returns success all come from
\* analyzeSections, whose return value does not depend on them
C13_SuccessWithErrorsOnlyFromSectioning ==
    (CompileReturned /\ compileResult = "true") =>
        \A i \in Errors(diagnostics) :
            diagnostics[i].message \in {"Code without execute: section", "Code without body section",
                                        AmountMessage, CharMessage}

RECURSIVE InferLoop(_, _, _)
\* the loop of inferTypes as a function: the state after its last pass
InferLoop(exprs, secs, iteration) ==
    CHOOSE after \in
        {IF p.diverged \/ ~p.changed \/ iteration + 1 >= InferenceIterations
         THEN p
         ELSE InferLoop(p.expressions, p.sections, iteration + 1) :
            p \in {InferPass(exprs, secs)}} : TRUE

\* the diagnostics validateVariables would push, in one of its orders, if
\* inferTypes were called on the sections as resolvePatterns left them
\* (expansion and variable scopes done first, as at the end of a successful
\* resolvePatterns)
TypeErrorsDue ==
    CHOOSE ds \in
        {IF t.diverged THEN <<>>
         ELSE CHOOSE pushed \in
                  {validateVariables(d, 1, CHOOSE order \in IterationOrders(d) : TRUE) :
                      d \in {defaultNumericTypes(t.sections, 1)}} : TRUE :
            t \in {InferLoop(ExpandAll(expressions, sections, lineState, 1),
                             ResolveVariableScopes(sections, unresolvedVariableReferences),
                             0)}} : TRUE

RECURSIVE Within(_, _)
\* section x is section a or lies below it
Within(x, a) == x /= 0 /\ (x = a \/ Within(sections[x].parent, a))

\* the sections that hold an unresolved reference
FailedSections == {r[1] : r \in StillUnresolved}
\* a section none of whose own references is unresolved, and none of whose
\* references matched a definition with an unresolved reference below it
Unrelated(x) ==
    /\ x \notin FailedSections
    /\ \A k \in DOMAIN sections[x].patternReferences :
          LET reference == sections[x].patternReferences[k]
          IN  reference.match.matched =>
                  \A f \in FailedSections : ~Within(f, reference.match.definition[1])

ResolutionFailed == (ResolveReturned \/ CompileReturned) /\ StillUnresolved /= {}
TypeErrorReported(d) == \E j \in DOMAIN diagnostics : diagnostics[j] = d

\* C14 (as claimed): when resolution fails for references of one section,
\* the type errors of unrelated sections whose references all resolved are
\* still reported in the same compile run.
C14_TypeErrorsSurviveResolutionFailure ==
    (CompileReturned /\ StillUnresolved /= {}) =>
        \A i \in DOMAIN TypeErrorsDue :
            Unrelated(lineState[TypeErrorsDue[i].subject].section) =>
                TypeErrorReported(TypeErrorsDue[i])

\* C14 (amended): when resolvePatterns fails, compile returns failure
\* without calling inferTypes: no type is inferred and no type error of any
\* section is reported in that run.
C14_NoInferenceAfterResolutionFailure ==
    ResolutionFailed =>
        /\ "inferTypes" \notin stagesRun
        /\ InferNotStarted
        /\ \A j \in DOMAIN diagnostics : \A x \in DOMAIN sections :
              \A k \in DOMAIN sections[x].variableReferences :
                  diagnostics[j].message /= NoTypeMessage(sections[x].variableReferences[k].name)
        /\ \A e \in DOMAIN expressions : ~isDeduced(expressions[e].type)
        /\ CompileReturned => compileResult = "false"

\* compile has returned after a failed resolution although a section
\* unrelated to the unresolved reference has a variable without a type
C14_Witness ==
    /\ CompileReturned
    /\ StillUnresolved /= {}
    /\ \E i \in DOMAIN TypeErrorsDue :
          /\ Unrelated(lineState[TypeErrorsDue[i].subject].section)
          /\ ~TypeErrorReported(TypeErrorsDue[i])

\* ------------------------------------------------------------------------
\* Properties of the pattern tries
\* ------------------------------------------------------------------------
DefinitionAt(d) == sections[d[1]].patternDefinitions[d[2]]
\* the definitions addPatternPart has been called for
InsertedDefinitions ==
    UNION {{<<x, k>> : k \in {j \in DOMAIN sections[x].patternDefinitions :
                                 sections[x].patternDefinitions[j].resolved}} :
           x \in DOMAIN sections}
TrieOf(d) == patternTrees[TreeTypeOf(sections[d[1]])]

\* the child a walk takes from node for a leaf element; 0 where there is none
ChildFor(tree, node, element) ==
    IF node = 0 THEN 0
    ELSE IF element.type = "Variable" THEN tree[node].argumentChild
    ELSE IF element.text \in DOMAIN tree[node].literalChildren
    THEN tree[node].literalChildren[element.text]
    ELSE 0

RECURSIVE WalkEnds(_, _, _, _)
\* the nodes reached from `nodes` by the elements from i on, one for every
\* combination of Choice alternatives; 0 stands for a walk that fell off
WalkEnds(tree, nodes, elements, i) ==
    IF i > Len(elements) THEN nodes
    ELSE IF elements[i].type = "Choice"
    THEN WalkEnds(tree,
                  UNION {WalkEnds(tree, nodes, elements[i].alternatives[a], 1) :
                            a \in DOMAIN elements[i].alternatives},
                  elements, i + 1)
    ELSE WalkEnds(tree, {ChildFor(tree, n, elements[i]) : n \in nodes}, elements, i + 1)

EndNodes(d) == WalkEnds(TrieOf(d), {1}, DefinitionAt(d).patternElements, 1)

\* the definitions a node records as ending there
RecordedAt(tree, n) ==
    IF n = 0 \/ tree[n].matchingDefinition = NoDefinition THEN {}
    ELSE {tree[n].matchingDefinition}

RECURSIVE Syntax(_)
\* what a pattern matches: its elements without positions and parameter names
Syntax(elements) ==
    [k \in DOMAIN elements |->
        [type |-> IF elements[k].type \in {"Variable", "Choice"} THEN elements[k].type
                  ELSE "Literal",
         text |-> IF elements[k].type = "Variable" THEN <<>> ELSE elements[k].text,
         alternatives |-> [a \in DOMAIN elements[k].alternatives |->
                              Syntax(elements[k].alternatives[a])]]]

\* two definitions of identical syntax, both inserted into the same trie
Ambiguous(d1, d2) ==
    /\ d1 /= d2
    /\ d1 \in InsertedDefinitions
    /\ d2 \in InsertedDefinitions
    /\ TreeTypeOf(sections[d1[1]]) = TreeTypeOf(sections[d2[1]])
    /\ Syntax(DefinitionAt(d1).patternElements) = Syntax(DefinitionAt(d2).patternElements)

\* erase_if visits the sections in the order of collectPatternReferencesAndSections
\* and a section's definitions in their order
InsertedBefore(d1, d2) == d1[1] < d2[1] \/ (d1[1] = d2[1] /\ d1[2] < d2[2])

\* In the programs with alternatives every definition has the same body, so
\* one pass of erase_if inserts them all: the order of insertion is the
\* order of the sections.
InsertedByOnePass ==
    InsertedDefinitions = {} \/
        \A x \in DOMAIN sections : \A k \in DOMAIN sections[x].patternDefinitions :
            <<x, k>> \in InsertedDefinitions

\* the resolved references whose match ends at an end node of d
CallSites(d) ==
    {r \in AllReferences :
        /\ RefOf(sections, r).resolved
        /\ RefOf(sections, r).match.matched
        /\ RefOf(sections, r).patternType = TreeTypeOf(sections[d[1]])
        /\ RefOf(sections, r).match.matchedEndNode \in EndNodes(d)}

InfoDiagnostics(line) ==
    {i \in DOMAIN diagnostics : diagnostics[i].level = "Info" /\ diagnostics[i].subject = line}

\* C15: when two definitions with identical syntax are inserted into the
\* same trie, both stay recorded at the shared end node, a call site
\* resolves to the one inserted first, and one Info diagnostic is emitted
\* for every ambiguous call site.
C15_AmbiguousDefinitionsKeptInOrder ==
    \A d1 \in InsertedDefinitions : \A d2 \in InsertedDefinitions :
        Ambiguous(d1, d2) =>
            /\ \A n \in EndNodes(d1) : {d1, d2} \subseteq RecordedAt(TrieOf(d1), n)
            /\ \A r \in CallSites(d1) :
                  /\ ~InsertedBefore(d1, RefOf(sections, r).match.definition)
                  /\ ResolveReturned => Cardinality(InfoDiagnostics(RefOf(sections, r).line)) = 1

\* C15, what the code does: the end node keeps the definition inserted last,
\* every call site resolves to it, and no diagnostic tells of the ambiguity.
C15_LastInsertedWins ==
    \A d1 \in InsertedDefinitions : \A d2 \in InsertedDefinitions :
        (Ambiguous(d1, d2) /\ InsertedBefore(d1, d2)) =>
            /\ \A n \in EndNodes(d1) : d1 \notin RecordedAt(TrieOf(d1), n)
            /\ \A r \in CallSites(d1) :
                  /\ RefOf(sections, r).match.definition /= d1
                  /\ InfoDiagnostics(RefOf(sections, r).line) = {}

\* resolvePatterns has returned with a call site resolved at the end node
\* two identical definitions share
C15_Witness ==
    /\ ResolveReturned
    /\ \E d1 \in InsertedDefinitions : \E d2 \in InsertedDefinitions :
          Ambiguous(d1, d2) /\ CallSites(d1) /= {}

\* the characters of a reference's elements
Tokens(elements) == Flatten([k \in DOMAIN elements |-> elements[k].text])

\* the alternatives of d's Choice elements that took in the space behind the
\* bracket: d has a Choice with an empty alternative followed by a space
OptionalWords(d) ==
    LET elements == DefinitionAt(d).patternElements
    IN  UNION {{elements[c].alternatives[a] :
                   a \in {b \in DOMAIN elements[c].alternatives :
                             /\ elements[c].alternatives[b] /= <<>>
                             /\ \E e \in DOMAIN elements[c].alternatives :
                                   elements[c].alternatives[e] = <<>>
                             /\ elements[c].alternatives[b][Len(elements[c].alternatives[b])].text
                                    = <<" ">>}} :
               c \in {k \in DOMAIN elements : elements[k].type = "Choice"}}

\* reference r2 is a resolved call of d and r1 is the same call with one of
\* d's optional words put in
WithAndWithout(d, r1, r2) ==
    LET with == Tokens(RefOf(sections, r1).patternElements)
        without == Tokens(RefOf(sections, r2).patternElements)
    IN  /\ r2 \in CallSites(d)
        /\ RefOf(sections, r1).patternType = RefOf(sections, r2).patternType
        /\ \E word \in OptionalWords(d) : \E at \in 0..Len(without) :
              with = (SubSeq(without, 1, at) \o Tokens(word))
                         \o SubSeq(without, at + 1, Len(without))

\* what a call passes: kind and value of each argument
ArgumentValues(match) ==
    [k \in DOMAIN match.arguments |->
        [kind |-> expressions[match.arguments[k]].kind,
         literalValue |-> expressions[match.arguments[k]].literalValue]]

OnlyDefinitionInTrie(d) ==
    \A other \in InsertedDefinitions :
        TreeTypeOf(sections[other[1]]) = TreeTypeOf(sections[d[1]]) => other = d

C17_InsertedDefinitionsStayRecorded ==
    \A d \in InsertedDefinitions : \A n \in EndNodes(d) :
        n /= 0 /\ d \in RecordedAt(TrieOf(d), n)

\* C17, what the code keeps: every walk reaches an end node, and the node
\* records d or a definition inserted after d.
C17_WalksReachAnEndNode ==
    \A d \in InsertedDefinitions : \A n \in EndNodes(d) :
        /\ n /= 0
        /\ \E last \in RecordedAt(TrieOf(d), n) :
              last = d \/ (last \in InsertedDefinitions /\ InsertedBefore(d, last))

\* ------------------------------------------------------------------------
\* Properties of the defaulting of Numeric types
\* ------------------------------------------------------------------------
IsNumeric(type) == type.kind = "Numeric"

\* no Expression, Variable, Instantiation key or return type is Numeric
NoNumericLeft ==
    /\ \A e \in DOMAIN expressions : ~IsNumeric(expressions[e].type)
    /\ \A x \in DOMAIN sections :
          /\ \A n \in DOMAIN sections[x].variables : ~IsNumeric(sections[x].variables[n].type)
          /\ \A key \in DOMAIN sections[x].instantiations :
                /\ \A k \in DOMAIN key : ~IsNumeric(key[k])
                /\ ~IsNumeric(sections[x].instantiations[key].returnType)

IntLiteral(e) == expressions[e].kind = "Literal" /\ expressions[e].literalValue.holds = "int64_t"
FitsInt32(e) ==
    /\ ~Int64Less(stoll(expressions[e].literalValue.value), INT32_MIN)
    /\ ~Int64Less(INT32_MAX, stoll(expressions[e].literalValue.value))

\* the step of inferTypes that defaults the Numeric types
DefaultsStep == stage = "inferTypes" /\ inferPc = "defaults" /\ inferPc' = "validate"

InstantiationKeyDefaulted ==
    /\ inferPc = "returned"
    /\ \E x \in DOMAIN sections : \E key \in DOMAIN sections[x].instantiations :
          \E k \in DOMAIN key : key[k] = Type("Integer", 4)

\* ------------------------------------------------------------------------
\* Properties of repeated runs
\* ------------------------------------------------------------------------
\* inferTypes is about to validate the variables
Validating == stage = "inferTypes" /\ inferPc = "validate"

\* C19: two runs on the same sources give the same diagnostics in the same
\* order and the same graphs: whatever order the hash maps are visited in,
\* the diagnostics pushed are the same list.  (The graphs are complete when
\* the variables are validated; validation only pushes diagnostics.)
C19_DiagnosticsIndependentOfIterationOrder ==
    Validating =>
        \A o1 \in IterationOrders(sections) : \A o2 \in IterationOrders(sections) :
            validateVariables(sections, 1, o1) = validateVariables(sections, 1, o2)

\* the diagnostics of a list, without their order
DiagnosticSet(ds) == {ds[k] : k \in DOMAIN ds}

\* C19, what the code keeps: the same diagnostics are pushed whatever the
\* order, each once; only the order of the Errors for the untyped variables
\* of one section follows the hash map.
C19_SameDiagnosticsUpToOrder ==
    Validating =>
        \A o1 \in IterationOrders(sections) : \A o2 \in IterationOrders(sections) :
            /\ DiagnosticSet(validateVariables(sections, 1, o1))
                   = DiagnosticSet(validateVariables(sections, 1, o2))
            /\ Len(validateVariables(sections, 1, o1)) = Len(validateVariables(sections, 1, o2))
            /\ Len(validateVariables(sections, 1, o1))
                   = Cardinality(DiagnosticSet(validateVariables(sections, 1, o1)))

\* ------------------------------------------------------------------------
\* Properties of lines with a syntax error
\* ------------------------------------------------------------------------
PatternTextOf(l) ==
    LET trimmedText == SubSeq(codeLines[l].rightTrimmedText,
                              Len(IndentOf(l)) + 1, Len(codeLines[l].rightTrimmedText))
    IN  IF EndsWithColon(trimmedText) THEN SubSeq(trimmedText, 1, Len(trimmedText) - 1)
        ELSE trimmedText

\* the line holds an unmatched bracket, an unterminated string or a comma
\* outside parentheses
SyntaxError(l) == createHierarchy(PatternTextOf(l), l) /= <<>>

ErrorsFor(l) == {i \in Errors(diagnostics) : diagnostics[i].subject = l}

\* the PatternReferences made from line l
ReferencesOf(l) == {r \in AllReferences : RefOf(sections, r).line = l}

\* the line loop has taken line l in and has not aborted on it
Continued(l) == l < Len(codeLines) \/ returned /= "false"

\* C20: a line with an unmatched bracket, an unterminated string or a comma
\* outside parentheses gets at least one Error, receives no Expression and
\* registers no PatternReference, and the analysis goes on with the next
\* line (over-indentation, which aborts for any line, aside).
C20_SyntaxErrorLineSkipped ==
    stage = "analyzeSections" =>
        \A l \in DOMAIN codeLines :
            (SyntaxError(l) /\ ~(l = Len(codeLines) /\ FatalIndent)) =>
                /\ ErrorsFor(l) /= {}
                /\ lineState[l].expression = 0
                /\ ReferencesOf(l) = {}
                /\ Continued(l)

\* the line opens a section with a section type keyword
DefinitionLine(l) == ParseKeywords(PatternTextOf(l), FALSE, FALSE).type /= None

\* C20, what the code does: the line never gets an Expression or a
\* PatternReference; it gets an Error unless it is a definition line, whose
\* pattern text is never scanned; the analysis goes on unless the line is
\* refused as a child section of a definition section.
C20_SyntaxErrorLineWithoutExpression ==
    stage = "analyzeSections" =>
        \A l \in DOMAIN codeLines :
            (SyntaxError(l) /\ ~(l = Len(codeLines) /\ FatalIndent)) =>
                /\ lineState[l].expression = 0
                /\ ReferencesOf(l) = {}
                /\ ErrorsFor(l) = {} =>
                      DefinitionLine(l) /\ lineState[l].sectionOpening /= 0
                /\ ~Continued(l) =>
                      /\ EndsWithColon(codeLines[l].rightTrimmedText)
                      /\ lineState[l].sectionOpening = 0
                      /\ diagnostics[Len(diagnostics)].message = "Unknown section"

\* ------------------------------------------------------------------------
\* The unresolved counters
\* ------------------------------------------------------------------------
RECURSIVE Below(_, _, _)
\* section x of secs is section a or lies below it
Below(secs, x, a) == x /= 0 /\ (x = a \/ Below(secs, secs[x].parent, a))

\* the unresolved references of section x itself
OwnUnresolved(secs, x) ==
    {k \in DOMAIN secs[x].patternReferences : ~secs[x].patternReferences[k].resolved}
\* the unresolved references in the subtree of section a
SubtreeUnresolved(secs, a) ==
    UNION {{<<x, k>> : k \in OwnUnresolved(secs, x)} :
              x \in {y \in DOMAIN secs : Below(secs, y, a)}}
\* the child sections whose counter is not zero
UnresolvedChildren(secs, a) ==
    {c \in DOMAIN secs : secs[c].parent = a /\ secs[c].unresolvedCount /= 0}

\* the counter is the sum over the subtree
CountsSubtree(secs) ==
    \A a \in DOMAIN secs :
        /\ secs[a].unresolvedCount = Cardinality(SubtreeUnresolved(secs, a))
        /\ secs[a].unresolvedCount >= 0

\* the counter is the section's own unresolved references plus one for each
\* child whose counter is not zero
CountsOwnAndChildren(secs) ==
    \A a \in DOMAIN secs :
        /\ secs[a].unresolvedCount =
              Cardinality(OwnUnresolved(secs, a)) + Cardinality(UnresolvedChildren(secs, a))
        /\ secs[a].unresolvedCount >= 0
        /\ secs[a].unresolvedCount = 0 <=> SubtreeUnresolved(secs, a) = {}

\* the sections after one more call of PatternReference::resolve
AfterResolve(r) == resolve(sections, r, NoMatch)

\* C21: at every point during sectioning and resolution each section's
\* unresolvedCount equals the number of unresolved pattern references in its
\* subtree, and it is never negative.
C21_CountIsSubtreeSum == CountsSubtree(sections)

\* C21, amended: at every point during sectioning and resolution, and after
\* each single call of resolve, a section's unresolvedCount equals the number
\* of its own unresolved references plus the number of its child sections
\* whose count is not zero (the parent is told exactly when the count leaves
\* or reaches zero); it is zero exactly when the subtree holds no unresolved
\* reference, and it is never negative.
C21_CountIsOwnPlusUnresolvedChildren ==
    /\ CountsOwnAndChildren(sections)
    /\ \A r \in StillUnresolved : CountsOwnAndChildren(AfterResolve(r))

\* resolution is over: a section had two unresolved references, one of them
\* was resolved and the other was not, and its parent still counts it once
C21_Witness ==
    /\ resolvePc = "returned"
    /\ \E a \in DOMAIN sections :
           /\ sections[a].parent /= 0
           /\ Len(sections[a].patternReferences) = 2
           /\ sections[a].unresolvedCount = 1
           /\ sections[sections[a].parent].unresolvedCount = 1

\* ------------------------------------------------------------------------
\* The counts of names that look like variables
\* ------------------------------------------------------------------------
\* the body references of section x that are unresolved and have a
\* VariableLike element with this text
UnresolvedMentions(secs, x, text) ==
    LET bodyRefs == collectBodyReferences(secs, x, 1)
    IN  {j \in DOMAIN bodyRefs :
            /\ ~RefOf(secs, bodyRefs[j]).resolved
            /\ HasVariableLike(RefOf(secs, bodyRefs[j]).patternElements, text)}

\* the leaf elements of definition k of section x that a step turns from
\* VariableLike into Other
Reclassified(x, k) ==
    LET before == Leaves(sections[x].patternDefinitions[k].patternElements)
        after == Leaves(sections'[x].patternDefinitions[k].patternElements)
    IN  {i \in DOMAIN before : before[i].type = "VariableLike" /\ after[i].type = "Other"}

InPhase1 == stage = "resolvePatterns" /\ resolvePc \in {"sections", "bodyReferences"}

\* C22: in phase 1 a VariableLike element of a definition with more than one
\* element becomes a literal only when the section's variableLikeCounts for
\* its name is 0, and a count is 0 only when no unresolved body reference of
\* the section (those of nested definitions included) has a VariableLike
\* element with that name.
C22_ReclassifiedOnlyWhenUnmentioned ==
    [][InPhase1 =>
          \A x \in DOMAIN sections :
              /\ \A text \in DOMAIN sections[x].variableLikeCounts :
                     sections[x].variableLikeCounts[text] = 0 =>
                         UnresolvedMentions(sections, x, text) = {}
              /\ \A k \in DOMAIN sections[x].patternDefinitions :
                     \A i \in Reclassified(x, k) :
                         LET d == sections[x].patternDefinitions[k]
                         IN  /\ Len(d.patternElements) > 1
                             /\ CountOf(sections[x], Leaves(d.patternElements)[i].text) = 0]_vars

\* ------------------------------------------------------------------------
\* Variable scopes
\* ------------------------------------------------------------------------
\* the sections from x upwards that hold a reference to the name
ReferencingAncestors(x, name) ==
    {a \in DOMAIN sections : Within(x, a) /\ HasReferenceTo(sections[a], name)}
\* the highest of them
HighestReferencing(x, name) ==
    CHOOSE a \in ReferencingAncestors(x, name) :
        \A b \in ReferencingAncestors(x, name) : Within(b, a)

\* the references of context.unresolvedVariableReferences with the name and
\* the highest referencing ancestor of entry u
GroupOf(u) ==
    {unresolvedVariableReferences[k].reference :
        k \in {j \in DOMAIN unresolvedVariableReferences :
                  /\ unresolvedVariableReferences[j].name = unresolvedVariableReferences[u].name
                  /\ HighestReferencing(unresolvedVariableReferences[j].reference[1],
                                        unresolvedVariableReferences[j].name)
                        = HighestReferencing(unresolvedVariableReferences[u].reference[1],
                                             unresolvedVariableReferences[u].name)}}
VarRefAt(v) == sections[v[1]].variableReferences[v[2]]
Earliest(group) == {v \in group : \A w \in group : VarRefAt(v).line <= VarRefAt(w).line}
\* the sections that register a Variable of that name defined by a
\* reference of the group
Registering(name, group) ==
    {x \in DOMAIN sections :
        /\ name \in DOMAIN sections[x].variables
        /\ sections[x].variables[name].definition \in group}

\* C23: after resolvePatterns succeeds, every group of unresolved variable
\* references of one name that share the highest referencing ancestor has
\* exactly one Variable, registered on that ancestor; its definition is a
\* reference of the group on the group's smallest line, and every other
\* reference of the group points to that definition.
C23_OneVariablePerGroup ==
    (ResolveReturned /\ returned = "true") =>
        \A u \in DOMAIN unresolvedVariableReferences :
            LET name == unresolvedVariableReferences[u].name
                highest == HighestReferencing(unresolvedVariableReferences[u].reference[1], name)
                group == GroupOf(u)
            IN  /\ Registering(name, group) = {highest}
                /\ sections[highest].variables[name].definition \in Earliest(group)
                /\ \A v \in group :
                       VarRefAt(v).definition =
                           IF v = sections[highest].variables[name].definition
                           THEN NoVariableReference
                           ELSE sections[highest].variables[name].definition

\* two groups of one name on two sections, one of them with references in
\* two sections whose earliest reference is not in the section that gets
\* the Variable
C23_Witness ==
    /\ ResolveReturned
    /\ returned = "true"
    /\ \E u, w \in DOMAIN unresolvedVariableReferences :
           /\ unresolvedVariableReferences[u].name = unresolvedVariableReferences[w].name
           /\ GroupOf(u) /= GroupOf(w)
    /\ \E u \in DOMAIN unresolvedVariableReferences :
           LET name == unresolvedVariableReferences[u].name
               highest == HighestReferencing(unresolvedVariableReferences[u].reference[1], name)
           IN  /\ Cardinality(GroupOf(u)) > 1
               /\ name \in DOMAIN sections[highest].variables
               /\ sections[highest].variables[name].definition[1] /= highest

\* ------------------------------------------------------------------------
\* Parameters and arguments
\* ------------------------------------------------------------------------
\* the resolved pattern calls
PatternCalls ==
    {e \in DOMAIN expressions :
        expressions[e].kind = "PatternCall" /\ expressions[e].patternMatch.matched}
\* the places of the parameters in the pattern of a definition, in order
ParameterPlaces(elements) ==
    LET places == {i \in DOMAIN elements : elements[i].type = "Variable"}
    IN  [k \in 1..Cardinality(places) |->
            CHOOSE i \in places : Cardinality({j \in places : j < i}) = k - 1]
\* what inferExpressionType binds for the call e
BoundFor(e) ==
    LET match == expressions[e].patternMatch
    IN  BindParameters(expressions, sections,
                       patternTrees[TreeTypeOf(sections[match.definition[1]])], match,
                       sortArgumentsByPosition(expressions, expressions[e].arguments),
                       NoBindings, 1, <<>>)
\* argument a of the call stands where element i of the call's text stands
StandsAt(a, reference, i) ==
    LET element == reference.patternElements[i]
    IN  /\ expressions[a].start = reference.start + reference.trimmed + element.startPos
        /\ IF element.text = ArgumentChar
           THEN expressions[a].kind = "Literal"
           ELSE /\ expressions[a].kind = "Variable"
                /\ VariableName(sections, expressions[a].variable) = element.text

RECURSIVE Descendants(_)
\* the expressions below expression e
Descendants(e) ==
    LET children == {expressions[e].arguments[k] : k \in DOMAIN expressions[e].arguments}
    IN  children \cup UNION {Descendants(c) : c \in children}

\* resolvePatterns has returned true
Expanded ==
    \/ ResolveReturned /\ returned = "true"
    \/ "inferTypes" \in stagesRun

\* C25: after resolvePatterns has succeeded and expanded the expression
\* trees, no Expression whose kind is not Pending has a Pending descendant.
C25_NoPendingBelowExpanded ==
    Expanded =>
        \A e \in DOMAIN expressions :
            expressions[e].kind /= "Pending" =>
                \A d \in Descendants(e) : expressions[d].kind /= "Pending"

\* an intrinsic call whose arguments were Pending: one became a Variable,
\* one a PatternCall with an argument of its own
C25_Witness ==
    /\ ResolveReturned
    /\ returned = "true"
    /\ \E e \in DOMAIN expressions :
           /\ expressions[e].kind = "IntrinsicCall"
           /\ \E c, d \in Descendants(e) :
                  /\ expressions[c].patternReference /= NoReference
                  /\ expressions[c].kind = "Variable"
                  /\ expressions[d].patternReference /= NoReference
                  /\ expressions[d].kind = "PatternCall"
                  /\ expressions[d].arguments /= <<>>

\* ------------------------------------------------------------------------
\* Stores
\* ------------------------------------------------------------------------
\* the assignments `var->type = valType` that the pass about to run makes,
\* in the order it makes them
StoresOfPass == InferPass(expressions, sections).stores

\* an Integer or a Float with a size, and one without
ConcreteSized(type) == type.kind \in {"Integer", "Float"} /\ type.byteSize > 0
SizeLess(type) == type.kind \in {"Integer", "Float"} /\ type.byteSize = 0

\* the refinements: Undeduced to anything, Numeric to a sized Integer or
\* Float, a size-less kind to the same kind with a size
RefinesTo(from, to) ==
    \/ ~isDeduced(from)
    \/ from.kind = "Numeric" /\ ConcreteSized(to)
    \/ SizeLess(from) /\ to.kind = from.kind /\ ConcreteSized(to)

\* C26: during type inference a store changes the type of its target
\* variable only to a type it can refine to (Undeduced to anything, Numeric
\* to a sized Integer or Float, a size-less kind to the same kind with a
\* size), and once a variable has a concrete sized type no later store of
\* any pass changes it.
C26_StoreOnlyRefines ==
    [][inferTypes_pass =>
          /\ \A k \in DOMAIN StoresOfPass :
                 StoresOfPass[k].from /= StoresOfPass[k].to =>
                     RefinesTo(StoresOfPass[k].from, StoresOfPass[k].to)
          /\ \A x \in DOMAIN sections : \A n \in DOMAIN sections[x].variables :
                 ConcreteSized(sections[x].variables[n].type) =>
                     sections'[x].variables[n].type = sections[x].variables[n].type]_vars

\* the half of C26 about sized types: a store never changes the type of a
\* variable that has a concrete sized type
C26_SizedTypeIsFinal ==
    [][inferTypes_pass =>
          /\ \A k \in DOMAIN StoresOfPass : ~ConcreteSized(StoresOfPass[k].from)
          /\ \A x \in DOMAIN sections : \A n \in DOMAIN sections[x].variables :
                 ConcreteSized(sections[x].variables[n].type) =>
                     sections'[x].variables[n].type = sections[x].variables[n].type]_vars

\* a pass has refined a Numeric variable to a sized Integer while another
\* variable keeps the sized type it had
C26_Witness ==
    /\ stage = "inferTypes"
    /\ Len(inferPasses) >= 2
    /\ \E x \in DOMAIN sections : \E n, m \in DOMAIN sections[x].variables :
           /\ n /= m
           /\ ConcreteSized(sections[x].variables[n].type)
           /\ ConcreteSized(sections[x].variables[m].type)

\* ------------------------------------------------------------------------
\* tbx::PatternTree
\* ------------------------------------------------------------------------
\* The tree of compiler/patternTree.cpp, with its operations clear,
\* addPattern and match.  The PatternTree object is held in patternTrees and
\* the value of the last call of match, with the input given, in returned.
\* A text is a sequence of characters.  The texts of the model hold letters,
\* the digit 1, spaces and '$': no '[' (expandAlternatives yields the text
\* itself), no '{' (no capture children), no quote, '-' or '.'.

\* struct PatternTreeNode: the literal children by their merged text, the
\* child for a '$' slot (0 is a null pointer), the patterns that end here
TbxPatternTreeNode ==
    [children |-> [literal \in {} |-> 0], expressionChild |-> 0, patternsEndedHere |-> <<>>]

\* a PatternTree after construction or clear(); rootNode is node 1
TbxPatternTree == [nodes |-> <<TbxPatternTreeNode>>, expressionPatterns |-> <<>>]

\* struct ResolvedPattern
ResolvedPattern(type, pattern) == [type |-> type, pattern |-> pattern]

\* the lambda flushLiteral of parsePatternElementsFromString
flushLiteral(elements, currentLiteral, addTrailingSpace) ==
    IF currentLiteral = <<>> THEN elements
    ELSE Append(elements,
                [type |-> "Literal",
                 text |-> IF addTrailingSpace /\ currentLiteral[Len(currentLiteral)] /= " "
                          THEN Append(currentLiteral, " ")
                          ELSE currentLiteral])

RECURSIVE ParseElementsFrom(_, _, _, _)
\* the loop of parsePatternElementsFromString; charIndex counts from 1
ParseElementsFrom(text, charIndex, currentLiteral, elements) ==
    IF charIndex > Len(text) THEN flushLiteral(elements, currentLiteral, FALSE)
    ELSE IF text[charIndex] = "$"
    THEN ParseElementsFrom(text,
                           IF charIndex < Len(text) /\ text[charIndex + 1] = " "
                           THEN charIndex + 2 ELSE charIndex + 1,
                           <<>>,
                           Append(flushLiteral(elements, currentLiteral, TRUE),
                                  [type |-> "Variable", text |-> <<>>]))
    ELSE ParseElementsFrom(text, charIndex + 1,
                           Append(IF /\ currentLiteral = <<>>
                                     /\ elements /= <<>>
                                     /\ elements[Len(elements)].type = "Variable"
                                  THEN <<" ">> ELSE currentLiteral,
                                  text[charIndex]),
                           elements)

\* PatternTree::parsePatternElementsFromString
parsePatternElementsFromString(text) == ParseElementsFrom(text, 1, <<>>, <<>>)

RECURSIVE addPatternPath(_, _, _, _, _)
\* PatternTree::addPatternPath, from element i on, standing at `node`
addPatternPath(nodes, elements, i, node, pattern) ==
    IF i > Len(elements)
    THEN [nodes EXCEPT ![node].patternsEndedHere = Append(@, pattern)]
    ELSE IF elements[i].type = "Literal"
    THEN IF elements[i].text \in DOMAIN nodes[node].children
         THEN addPatternPath(nodes, elements, i + 1, nodes[node].children[elements[i].text],
                             pattern)
         ELSE addPatternPath(
                  Append([nodes EXCEPT ![node].children = (elements[i].text :> Len(nodes) + 1) @@ @],
                         TbxPatternTreeNode),
                  elements, i + 1, Len(nodes) + 1, pattern)
    ELSE IF nodes[node].expressionChild /= 0
    THEN addPatternPath(nodes, elements, i + 1, nodes[node].expressionChild, pattern)
    ELSE addPatternPath(Append([nodes EXCEPT ![node].expressionChild = Len(nodes) + 1],
                               TbxPatternTreeNode),
                        elements, i + 1, Len(nodes) + 1, pattern)

RECURSIVE DropLeadingSpaces(_)
DropLeadingSpaces(text) ==
    IF text /= <<>> /\ text[1] = " " THEN DropLeadingSpaces(Tail(text)) ELSE text

\* the variant of addPattern without its leading spaces; a text of nothing
\* but spaces has no first character that is not a space and is kept
TrimmedVariant(variant) ==
    IF \E k \in DOMAIN variant : variant[k] /= " " THEN DropLeadingSpaces(variant) ELSE variant

\* PatternTree::addPattern
addPattern(tree, pattern) ==
    LET tracked == IF pattern.type = "Expression"
                   THEN Append(tree.expressionPatterns, pattern)
                   ELSE tree.expressionPatterns
        trimmedVariant == TrimmedVariant(pattern.pattern)
    IN  [nodes |-> IF trimmedVariant = <<>> THEN tree.nodes
                   ELSE addPatternPath(tree.nodes,
                                       parsePatternElementsFromString(trimmedVariant),
                                       1, 1, pattern),
         expressionPatterns |-> tracked]

RECURSIVE CountLiteralWords(_, _, _)
\* the loop `while (iss >> word)` of specificity: word is the word being read
CountLiteralWords(text, i, word) ==
    LET counted == IF word /= <<>> /\ word /= <<"$">> THEN 1 ELSE 0
    IN  IF i > Len(text) THEN counted
        ELSE IF text[i] = " " THEN counted + CountLiteralWords(text, i + 1, <<>>)
        ELSE CountLiteralWords(text, i + 1, Append(word, text[i]))

\* ResolvedPattern::specificity
specificity(pattern) == CountLiteralWords(pattern.pattern, 1, <<>>)

\* PatternTree::isExpressionBoundary
isExpressionBoundary(character) == character \in {" ", ":", ",", ")", "]"}

RECURSIVE BoundariesDown(_, _, _)
\* PatternTree::findExpressionBoundaries: the ends after `start`, the
\* longest first; positions count from 0
BoundariesDown(input, end, start) ==
    IF end <= start THEN <<>>
    ELSE (IF end = Len(input) \/ isExpressionBoundary(input[end + 1]) THEN <<end>> ELSE <<>>)
             \o BoundariesDown(input, end - 1, start)

findExpressionBoundaries(input, start) == BoundariesDown(input, Len(input), start)

\* PatternTree::tryParseLiteral has a value: the text is a number
tryParseLiteral(text) == text /= <<>> /\ \A k \in DOMAIN text : text[k] \in {"1"}

\* struct TreePatternMatch, and std::nullopt
TreePatternMatch(pattern, arguments, consumedLength) ==
    [found |-> TRUE, pattern |-> pattern, arguments |-> arguments,
     consumedLength |-> consumedLength]
NoTreeMatch ==
    [found |-> FALSE, pattern |-> ResolvedPattern("", <<>>), arguments |-> <<>>,
     consumedLength |-> 0]

\* a MatchedValue: an ExpressionMatch, a number or a string
MatchedValue(holds, text, pattern, arguments) ==
    [holds |-> holds, text |-> text, pattern |-> pattern, arguments |-> arguments]

\* the comparison given to std::max_element
LessMatch(leftMatch, rightMatch) ==
    IF specificity(leftMatch.pattern) /= specificity(rightMatch.pattern)
    THEN specificity(leftMatch.pattern) < specificity(rightMatch.pattern)
    ELSE leftMatch.consumedLength < rightMatch.consumedLength

\* std::max_element: the first of the matches that none is greater than
BestMatch(matches) ==
    matches[CHOOSE i \in DOMAIN matches :
                /\ \A j \in DOMAIN matches : ~LessMatch(matches[i], matches[j])
                /\ \A k \in 1..(i - 1) : \E j \in DOMAIN matches : LessMatch(matches[k], matches[j])]

\* the literals of the children of a tree's nodes
LiteralsOf(tree) == UNION {DOMAIN tree.nodes[n].children : n \in DOMAIN tree.nodes}

RECURSIVE matchRecursive(_, _, _, _, _, _, _)
RECURSIVE MatchChildren(_, _, _, _, _, _, _, _)
RECURSIVE MatchBoundaries(_, _, _, _, _, _, _, _, _)
RECURSIVE MatchEachPattern(_, _, _, _)
\* the loop of matchExpression over expressionPatterns: a tree of its own for
\* every pattern, without expression patterns
MatchEachPattern(tree, input, startPos, k) ==
    IF k > Len(tree.expressionPatterns) THEN <<>>
    ELSE LET pattern == tree.expressionPatterns[k]
             tempTree ==
                 [nodes |-> addPatternPath(<<TbxPatternTreeNode>>,
                                           parsePatternElementsFromString(pattern.pattern),
                                           1, 1, pattern),
                  expressionPatterns |-> <<>>]
             order == CHOOSE o \in Orderings(LiteralsOf(tempTree)) : TRUE
         IN  matchRecursive(tempTree, 1, input, startPos, <<>>, <<>>, order)
                 \o MatchEachPattern(tree, input, startPos, k + 1)

\* PatternTree::matchExpression
matchExpression(tree, input, startPos) ==
    LET matches == MatchEachPattern(tree, input, startPos, 1)
    IN  IF matches = <<>> THEN NoTreeMatch ELSE BestMatch(matches)

\* PatternTree::tryMatchExpressionAt: the ExpressionMatch, or nothing
tryMatchExpressionAt(tree, input, pos) ==
    IF tree.expressionPatterns = <<>> THEN [found |-> FALSE, matchedText |-> <<>>]
    ELSE LET treeMatch == matchExpression(tree, input, pos)
         IN  IF ~treeMatch.found THEN [found |-> FALSE, matchedText |-> <<>>]
             ELSE [found |-> TRUE,
                   matchedText |-> SubSeq(input, pos + 1, treeMatch.consumedLength),
                   pattern |-> treeMatch.pattern,
                   arguments |-> treeMatch.arguments]

\* PatternTree::matchRecursive: the matches pushed so far and by this call.
\* node->children is a std::unordered_map; `order` is the order in which a
\* loop visits the literals.  pos counts from 0.
matchRecursive(tree, node, input, pos, arguments, matches, order) ==
    LET ended ==
            matches \o [k \in DOMAIN tree.nodes[node].patternsEndedHere |->
                           TreePatternMatch(tree.nodes[node].patternsEndedHere[k], arguments, pos)]
    IN  IF node = 0 THEN matches
        ELSE IF pos >= Len(input) THEN ended
        ELSE CHOOSE after \in
                 {IF tree.nodes[node].expressionChild = 0 THEN literal
                  ELSE MatchBoundaries(tree, node, input, pos, arguments, literal, order,
                                       findExpressionBoundaries(input, pos), 1) :
                      literal \in {MatchChildren(tree, node, input, pos, arguments, ended,
                                                 order, 1)}} : TRUE

\* the loop of matchRecursive over node->children
MatchChildren(tree, node, input, pos, arguments, matches, order, i) ==
    IF i > Len(order) THEN matches
    ELSE IF /\ order[i] \in DOMAIN tree.nodes[node].children
            /\ pos + Len(order[i]) <= Len(input)
            /\ SubSeq(input, pos + 1, pos + Len(order[i])) = order[i]
    THEN CHOOSE after \in
             {MatchChildren(tree, node, input, pos, arguments, below, order, i + 1) :
                 below \in {matchRecursive(tree, tree.nodes[node].children[order[i]], input,
                                           pos + Len(order[i]), arguments, matches, order)}} : TRUE
    ELSE MatchChildren(tree, node, input, pos, arguments, matches, order, i + 1)

\* the loop of matchRecursive over the expression boundaries
MatchBoundaries(tree, node, input, pos, arguments, matches, order, boundaries, i) ==
    IF i > Len(boundaries) THEN matches
    ELSE LET end == boundaries[i]
             exprText == SubSeq(input, pos + 1, end)
             child == tree.nodes[node].expressionChild
             AsExpression(subMatch) ==
                 IF subMatch.found
                 THEN matchRecursive(tree, child, input, pos + Len(subMatch.matchedText),
                                     Append(arguments,
                                            MatchedValue("ExpressionMatch", subMatch.matchedText,
                                                         subMatch.pattern, subMatch.arguments)),
                                     matches, order)
                 ELSE matches
             AsLiteral(sofar) ==
                 IF tryParseLiteral(exprText)
                 THEN matchRecursive(tree, child, input, end,
                                     Append(arguments,
                                            MatchedValue("int64_t", exprText,
                                                         ResolvedPattern("", <<>>), <<>>)),
                                     sofar, order)
                 ELSE sofar
             AsText(sofar) ==
                 matchRecursive(tree, child, input, end,
                                Append(arguments,
                                       MatchedValue("string", exprText,
                                                    ResolvedPattern("", <<>>), <<>>)),
                                sofar, order)
         IN  CHOOSE after \in
                 {MatchBoundaries(tree, node, input, pos, arguments, text, order, boundaries,
                                  i + 1) :
                     text \in {AsText(literal) :
                         literal \in {AsLiteral(expression) :
                             expression \in {AsExpression(subMatch) :
                                 subMatch \in {tryMatchExpressionAt(tree, input, pos)}}}}} : TRUE

\* PatternTree::match with startPos 0
match(tree, input, order) ==
    LET matches == matchRecursive(tree, 1, input, 0, <<>>, <<>>, order)
    IN  IF matches = <<>> THEN NoTreeMatch ELSE BestMatch(matches)

\* the patterns and the inputs of the model
MaxTreePatterns == 3
TreePatterns ==
    {ResolvedPattern("Effect", <<"p">>),
     ResolvedPattern("Effect", <<"p", " ", "$">>),
     ResolvedPattern("Effect", <<"p", " ", "q">>),
     ResolvedPattern("Expression", <<"$", " ", "q">>),
     ResolvedPattern("Expression", <<"q">>)}
TreeInputs ==
    {<<"p">>, <<"p", " ", "q">>, <<"p", " ", "1">>, <<"p", " ", "q", " ", "q">>, <<"q">>}

\* the number of patterns that were added
PatternsAdded(tree) ==
    LET RECURSIVE Sum(_)
        Sum(n) == IF n = 0 THEN 0 ELSE Len(tree.nodes[n].patternsEndedHere) + Sum(n - 1)
    IN  Sum(Len(tree.nodes))

treeVars == <<patternTrees, returned>>
outsideTree ==
    <<stagesRun, compileResult, diagnostics, codeLines, importVars, sectionVars, bodyReferences,
      globalReferences, unResolvedSections, unresolvedVariableReferences, resolutionIteration,
      resolvePc, inferVars>>

\* a new PatternTree, and no call of match yet
InitTree ==
    /\ stage = "patternTree"
    /\ stagesRun = {}
    /\ compileResult = "running"
    /\ diagnostics = <<>>
    /\ codeLines = <<>>
    /\ importedFiles = {}
    /\ fileSystem = [f \in Files |-> <<>>]
    /\ fileComplete = [f \in Files |-> FALSE]
    /\ rootPath = "a.dl"
    /\ callStack = <<>>
    /\ pendingCall = None
    /\ loads = <<>>
    /\ sections = <<>>
    /\ expressions = <<>>
    /\ lineState = <<>>
    /\ currentSection = 0
    /\ indentString = <<>>
    /\ indentLevel = 0
    /\ compiledLineIndex = 0
    /\ bodyReferences = <<>>
    /\ globalReferences = <<>>
    /\ unResolvedSections = <<>>
    /\ unresolvedVariableReferences = <<>>
    /\ resolutionIteration = 0
    /\ resolvePc = "idle"
    /\ InferNotStarted
    /\ patternTrees = TbxPatternTree
    /\ returned = [input |-> <<>>, match |-> NoTreeMatch]

PatternTree_clear ==
    /\ stage = "patternTree"
    /\ patternTrees' = TbxPatternTree
    /\ UNCHANGED <<stage, returned, outsideTree>>

PatternTree_addPattern ==
    /\ stage = "patternTree"
    /\ PatternsAdded(patternTrees) < MaxTreePatterns
    /\ \E pattern \in TreePatterns : patternTrees' = addPattern(patternTrees, pattern)
    /\ UNCHANGED <<stage, returned, outsideTree>>

PatternTree_match ==
    /\ stage = "patternTree"
    /\ \E input \in TreeInputs : \E order \in Orderings(LiteralsOf(patternTrees)) :
           returned' = [input |-> input, match |-> match(patternTrees, input, order)]
    /\ UNCHANGED <<stage, patternTrees, outsideTree>>

NextTree ==
    \/ PatternTree_clear
    \/ PatternTree_addPattern
    \/ PatternTree_match

SpecTree == InitTree /\ [][NextTree]_vars

\* C27: PatternTree::match reports a match for a definition only if the walk
\* reached the definition's end node having consumed the entire reference
\* text: an end node reached after a prefix of the text is not returned.
C27_MatchConsumesWholeText ==
    returned.match.found => returned.match.consumedLength = Len(returned.input)

\* ------------------------------------------------------------------------
\* Phase 2 of resolvePatterns
\* ------------------------------------------------------------------------
\* the elements of the definitions of a section
DefinitionElements(secs, x) ==
    [k \in DOMAIN secs[x].patternDefinitions |-> secs[x].patternDefinitions[k].patternElements]

\* an element of a definition that is VariableLike and has this text
DefinitionHasVariableLike(secs, text) ==
    \E x \in DOMAIN secs : \E k \in DOMAIN secs[x].patternDefinitions :
        \E leaf \in {Leaves(secs[x].patternDefinitions[k].patternElements)[j] :
                         j \in DOMAIN Leaves(secs[x].patternDefinitions[k].patternElements)} :
            leaf.type = "VariableLike" /\ leaf.text = text

\* the references that collectPatternReferencesAndSections calls global
GlobalReferencesOf(secs) == collectPatternReferencesAndSections(secs, 1, FALSE).globalReferences

\* C28: phase 2 of resolvePatterns, the draining of the global references,
\* never changes the variableLikeCounts of a section, never reclassifies an
\* element of a pattern definition and never inserts a definition into a
\* trie.
C28_Phase2LeavesDefinitionsAlone ==
    [][resolvePc = "phase2" =>
          /\ \A x \in DOMAIN sections :
                 /\ sections'[x].variableLikeCounts = sections[x].variableLikeCounts
                 /\ DefinitionElements(sections', x) = DefinitionElements(sections, x)
          /\ patternTrees' = patternTrees]_vars

\* phase 2 is over; it made a variable of a global reference `a` and matched
\* another that holds the variable `a`, while a definition that is not
\* resolved still has a VariableLike element `a`
C28_Witness ==
    /\ resolvePc = "finish"
    /\ DefinitionHasVariableLike(sections, <<"a">>)
    /\ \E r, q \in {GlobalReferencesOf(sections)[k] : k \in DOMAIN GlobalReferencesOf(sections)} :
           /\ PromotedToVariable(RefOf(sections, r))
           /\ RefOf(sections, r).patternElements[1].text = <<"a">>
           /\ RefOf(sections, q).match.matched
           /\ \E v \in DOMAIN RefOf(sections, q).match.discoveredVariables :
                  RefOf(sections, q).match.discoveredVariables[v].name = <<"a">>

\* ------------------------------------------------------------------------
\* Instantiations and the shared body expressions
\* ------------------------------------------------------------------------
\* C29: for a pattern that is no macro and is called with different tuples
\* of argument types, the return type recorded for an Instantiation is
\* determined by the argument types of that instantiation alone.  Every
\* pattern of these programs returns its one argument, so a return type that
\* is recorded is the argument type of the entry's own key.  The entries
\* looked at are those whose key holds deduced types only.
C29_ReturnTypeFromOwnArguments ==
    \A x \in FunctionSections :
        \A key \in DOMAIN sections[x].instantiations :
            (/\ \A k \in DOMAIN key : isDeduced(key[k])
             /\ isDeduced(sections[x].instantiations[key].returnType)) =>
                sections[x].instantiations[key].returnType = key[1]

\* ------------------------------------------------------------------------
\* The indent level and the section tree
\* ------------------------------------------------------------------------
RECURSIVE SectionDepth(_, _)
\* the number of parent links from a section to the root section
SectionDepth(secs, x) ==
    IF x = 0 \/ secs[x].parent = 0 THEN 0 ELSE 1 + SectionDepth(secs, secs[x].parent)

\* C30: while analyzeSections has not returned, the tracked indent level is
\* the depth of the current section in the section tree, and the loop that
\* leaves sections on a dedent never follows the null parent of the root
\* section, whatever indentation errors were diagnosed before.
C30_IndentLevelIsDepth ==
    /\ stage /= "crashed"
    /\ (stage = "analyzeSections" /\ returned = None) =>
           /\ currentSection /= 0
           /\ indentLevel = SectionDepth(sections, currentSection)

\* the third line left two sections at once and is a line of the root
\* section, after the second line had an indentation Error and opened a
\* section of depth two
C30_Witness ==
    /\ stage = "analyzeSections"
    /\ returned = None
    /\ Len(lineState) = 3
    /\ \E i \in Errors(diagnostics) : diagnostics[i].subject = 2
    /\ lineState[2].sectionOpening /= 0
    /\ SectionDepth(sections, lineState[2].sectionOpening) = 2
    /\ lineState[3].section = 1
    /\ currentSection = 1
    /\ indentLevel = 0

====
